---- MODULE Spec2Model ----
(***************************************************************************)
(* Model of the planet cluster health agent: the status aggregator         *)
(* (lib/agent/server.go), the Status RPC handler and the in-memory status  *)
(* cache that replicates into a backend (package memory).                  *)
(***************************************************************************)
EXTENDS Integers, Sequences, FiniteSets, Bags, TLC

VARIABLES
    cache,  \* the cache's embedded pb.SystemStatus: [Status, Nodes]
    store,  \* the sqlite backend: tables node and probe, channel done
    resp,   \* the pb.StatusResponse a handler / setSystemStatus works on
    ret,    \* the most recent call: operation, NodeStatus argument, error
    out,    \* the probes the most recent backend.RecentStatus returned
    now,    \* the wall clock, in units of 24 hours
    sweeper, \* the goroutine running backend.scavengeLoop
    heap,   \* the pb.NodeStatus objects behind the pointers of cache and callers
    conc,   \* the cache's RWMutex and the goroutines calling the cache
    retry,  \* one call of utils.Retry: its loop, its context, what fn returned
    agent,  \* the agents of a two-member cluster and their status update loops
    reporter, \* the health.Reporter the checkers of a run add their probes to
    main,   \* the agent process of tool/agent: runAgent and its deferred calls
    calls   \* the goroutines calling cache.UpdateNode at the same time

vars == <<cache, store, resp, ret, out, now, sweeper, heap, conc, retry, agent, reporter,
          main, calls>>

----------------------------------------------------------------------------
(* Bounds *)

\* longest node list handed to setSystemStatus
MaxNodes == 3
\* longest node list a caller hands to cache.Update
MaxUpdate == 2
\* most probes in one NodeStatus handed to backend.UpdateNode
MaxProbes == 2
\* most rows of the probe table
MaxRows == 2
\* most rows of the probe table where RecentStatus meets its LIMIT
MaxRecentRows == 6
\* most pb.NodeStatus objects allocated
MaxObjs == 4
\* goroutines reading the cache while one goroutine writes it
MaxReaders == 2
\* largest number of attempts passed to Retry
MaxTimes == 4
\* checkers run against one reporter
MaxRuns == 2
\* conditions of the component statuses kubernetes lists
MaxConditions == 2
\* calls of MarshalText and UnmarshalText in a row
MaxCalls == 2
\* last instant of the clock
MaxTime == 2

----------------------------------------------------------------------------
(* Protobuf enumerations and values *)

SystemStatus_Unknown == "SystemStatus_Unknown"
SystemStatus_Running == "SystemStatus_Running"
SystemStatus_Degraded == "SystemStatus_Degraded"
SystemStatus_Type == {SystemStatus_Unknown, SystemStatus_Running, SystemStatus_Degraded}

NodeStatus_Unknown == "NodeStatus_Unknown"
NodeStatus_Running == "NodeStatus_Running"
NodeStatus_Degraded == "NodeStatus_Degraded"
NodeStatus_Type == {NodeStatus_Unknown, NodeStatus_Running, NodeStatus_Degraded}

MemberStatus_None == "MemberStatus_None"
MemberStatus_Alive == "MemberStatus_Alive"
MemberStatus_Leaving == "MemberStatus_Leaving"
MemberStatus_Left == "MemberStatus_Left"
MemberStatus_Failed == "MemberStatus_Failed"
MemberStatus_Type ==
    {MemberStatus_None, MemberStatus_Alive, MemberStatus_Leaving,
     MemberStatus_Left, MemberStatus_Failed}

RoleMaster == "master"
RoleNode == "node"

errNoMaster == "master node unavailable"

\* Tags is a map[string]string: a function from the keys present to values.
NoTags == [k \in {} |-> ""]
RoleTag(role) == [k \in {"role"} |-> role]

\* the tag maps of the aggregator's inputs: no role tag, role = master,
\* role = node
AggTags == {NoTags, RoleTag(RoleMaster), RoleTag(RoleNode)}

NodeStatus(name, status, memberStatus, tags) ==
    [Name |-> name, Status |-> status,
     MemberStatus |-> [Name |-> name, Status |-> memberStatus, Tags |-> tags]]

\* the zero pb.StatusResponse of a handler that has not run
NoResp == [Status |-> [Status |-> SystemStatus_Unknown, Nodes |-> <<>>], Summary |-> "none"]
NoNode == [Name |-> ""]
NoCall == [op |-> "none", node |-> NoNode, err |-> FALSE, again |-> FALSE]

\* no object allocated: obj[a] is the pb.NodeStatus at address a, nodes the
\* pointers of the cache's r.Nodes, held the arguments callers keep and
\* given the results they were handed
NewHeap == [obj |-> <<>>, nodes |-> <<>>, held |-> {}, given |-> {}]

\* the goroutines before their first call: an unlocked sync.RWMutex (w: the
\* writer holds it, r: readers holding it), the committed SystemStatus, the
\* writer and the readers with their position, argument and result
Readers == 1..MaxReaders
IdleWriter == [pc |-> "idle", op |-> "none", arg |-> NoNode]
IdleReader == [pc |-> "idle", op |-> "none", res |-> NoNode]
NewConc ==
    [mu |-> [w |-> FALSE, r |-> 0],
     committed |-> [Status |-> SystemStatus_Unknown, Nodes |-> <<>>],
     wr |-> IdleWriter,
     rd |-> [i \in Readers |-> IdleReader]]

\* errors are numbered by the attempt that returned them; nil is NoError
NoError == 0
NotReturned == -1

\* Retry not yet called
NewRetry == [times |-> 0, i |-> 0, pc |-> "idle", cancelled |-> FALSE,
             errs |-> <<>>, result |-> NotReturned]

\* the local agent and its peer before their first tick: the members serf
\* lists, the peer's cache (the local agent's is the variable cache), where
\* each agent is in its tick, the NodeStatus each one finalized last, what
\* the local agent's last fan-out met, and whether a tick of the agent that
\* has ended collected a failed probe
Agents == {"local", "remote"}
NewAgent ==
    [members |-> <<>>,
     peer |-> [Status |-> SystemStatus_Unknown, Nodes |-> <<>>],
     pc |-> [a \in Agents |-> "idle"],
     status |-> [a \in Agents |-> NoNode],
     seen |-> [reachable |-> FALSE, peer |-> NoNode],
     failed |-> [a \in Agents |-> FALSE]]

\* the process at the entry of runAgent: the calls it has made on the agent
\* and the connection with what each returned, the calls of the statement it
\* is in, the deferred functions, the error runAgent returns
NewMain == [pc |-> "newAgent", mode |-> "master", log |-> <<>>, todo |-> <<>>,
            defers |-> <<>>, err |-> FALSE, exit |-> NotReturned]

\* no call of cache.UpdateNode in flight
NewCalls == <<>>

\* a reporter nothing was added to: the probes added, and for every run of a
\* checker its name, the path it took and the number of probes it added
NewReporter == [probes |-> <<>>, runs |-> <<>>]

----------------------------------------------------------------------------
(* package sqlite: the backend *)

Probe_Unknown == "Probe_Unknown"
Probe_Running == "Probe_Running"
Probe_Failed == "Probe_Failed"
Probe_Terminated == "Probe_Terminated"
Probe_Type == {Probe_Unknown, Probe_Running, Probe_Failed, Probe_Terminated}

\* const scavengeTimeout = 24 * time.Hour, in units of 24 hours
scavengeTimeout == 1
\* LIMIT 5 of the query of RecentStatus
RecentLimit == 5

\* scavengeLoop as newBackend starts it at instant 0: in its select, with the
\* timer of time.After(scavengeTimeout)
NewSweeper == [pc |-> "select", timer |-> scavengeTimeout]

\* the database after newBackend: the schema without rows, done open
NewStore == [node |-> <<>>, probe |-> EmptyBag, done |-> FALSE]

\* the probes of a NodeStatus; a status built without probes has a nil slice
ProbesOf(status) == IF "Probes" \in DOMAIN status THEN status.Probes ELSE <<>>

\* protoToStatus: the letter stored in probe.status; every status that is
\* neither running nor terminated is written as failed
protoToStatus(status) ==
    CASE status = Probe_Running -> "H"
      [] status = Probe_Terminated -> "T"
      [] OTHER -> "F"

toProto(s) ==
    CASE s = "H" -> Probe_Running
      [] s = "T" -> Probe_Terminated
      [] OTHER -> Probe_Failed

\* timestamp.Value and timestamp.Scan: the text of a pb.Timestamp and back
timestampValue(ts) == <<"text", ts>>
timestampScan(src) == src[2]

\* id of the node row with that name, 0 when there is none
RECURSIVE selectId(_, _, _)
selectId(nodes, name, i) ==
    IF i > Len(nodes) THEN 0
    ELSE IF nodes[i] = name THEN i
    ELSE selectId(nodes, name, i + 1)

\* sqlite3_last_insert_rowid of the pooled connection an insert runs on: 0
\* on a connection that has inserted nothing, else the rowid of an earlier
\* insert into node or into probe.  Of the rowids no node has yet, the next
\* one stands for all.
RowIds(st) ==
    LET rows == BagCardinality(st.probe)
    IN 0..(IF rows > Len(st.node) THEN Len(st.node) + 1 ELSE Len(st.node))

\* res.LastInsertId() after INSERT OR IGNORE: the new row's id, and when the
\* insert was ignored the value the connection had before, last
LastInsertId(nodes, inserted, last) == IF inserted THEN Len(nodes) ELSE last

\* backend.upsertNode: [node |-> the node table, id |-> the id returned]
upsertNode(nodes, name, last) ==
    LET inserted == selectId(nodes, name, 1) = 0
        after == IF inserted THEN Append(nodes, name) ELSE nodes
        id == LastInsertId(after, inserted, last)
    IN [node |-> after, id |-> IF id = 0 THEN selectId(after, name, 1) ELSE id]

\* the row addStatus inserts for a probe
probeRow(id, probe) ==
    [node |-> id, checker |-> probe.Checker, extra |-> probe.Extra,
     status |-> protoToStatus(probe.Status), error |-> probe.Error,
     captured_at |-> timestampValue(probe.Timestamp)]

\* backend.addStatus stopped before its k-th insert: the rows of the first
\* k - 1 probes
RECURSIVE addStatus(_, _, _, _)
addStatus(rows, id, probes, k) ==
    IF k <= 1 THEN rows
    ELSE addStatus(rows, id, probes, k - 1) (+) SetToBag({probeRow(id, probes[k - 1])})

\* backend.UpdateNode.  fail = 0: every statement succeeds; fail = -1: Beginx
\* or the insert of upsertNode fails; fail = k >= 1: the insert of the k-th
\* probe fails.  The statements run through r.Exec, on the database and not
\* on the transaction inTx began, so that Rollback undoes none of them.
\* On a closed database (done) nothing runs.  The results: one for every id
\* upsertNode may return, which depends on the connection's last insert rowid
\* and which only the rows addStatus inserts carry.
backendUpdateNode(st, status, fail) ==
    IF st.done \/ fail = -1 THEN {st}
    ELSE LET n == IF fail = 0 THEN Len(ProbesOf(status)) + 1 ELSE fail
             node == upsertNode(st.node, status.Name, 0).node
             ids == IF n = 1 THEN {0}
                    ELSE {upsertNode(st.node, status.Name, last).id : last \in RowIds(st)}
         IN {[st EXCEPT !.node = node,
                        !.probe = addStatus(st.probe, id, ProbesOf(status), n)] :
                id \in ids}

\* backend.Update mirrors every node of the system status
RECURSIVE backendUpdate(_, _, _)
backendUpdate(st, status, ok) ==
    IF ~ok \/ status.Nodes = <<>> THEN {st}
    ELSE UNION {backendUpdate(t, [status EXCEPT !.Nodes = Tail(status.Nodes)], ok) :
                   t \in backendUpdateNode(st, Head(status.Nodes), 0)}

\* the probe a row scans into (RecentStatus, rows.Scan)
rowProbe(row) ==
    [Checker |-> row.checker, Extra |-> row.extra, Status |-> toProto(row.status),
     Error |-> row.error, Timestamp |-> timestampScan(row.captured_at)]

\* FROM probe p JOIN node n WHERE p.node = n.id AND n.name = ?
joinRows(st, name) ==
    LET matching == {r \in BagToSet(st.probe) :
                        r.node \in 1..Len(st.node) /\ st.node[r.node] = name}
    IN [r \in matching |-> CopiesIn(r, st.probe)]

BagMinus(B, r) == B (-) SetToBag({r})

RECURSIVE orderLimit(_, _)
\* the query without its ORDER BY: any k rows in any order
orderLimit_unordered(rows, k) ==
    LET RECURSIVE pick(_, _)
        pick(B, n) ==
            IF n = 0 \/ B = EmptyBag THEN {<<>>}
            ELSE UNION {{<<r>> \o q : q \in pick(BagMinus(B, r), n - 1)} : r \in BagToSet(B)}
    IN pick(rows, k)

\* ORDER BY p.captured_at DESC LIMIT k: every sequence the query may return;
\* rows of equal captured_at come in any order
orderLimit(rows, k) ==
    IF k = 0 \/ rows = EmptyBag THEN {<<>>}
    ELSE LET newest == {r \in BagToSet(rows) :
                           \A q \in BagToSet(rows) :
                               timestampScan(q.captured_at) <= timestampScan(r.captured_at)}
         IN UNION {{<<r>> \o q : q \in orderLimit(BagMinus(rows, r), k - 1)} : r \in newest}

\* backend.RecentStatus: the results the query may return
backendRecentStatus(st, name) ==
    {[i \in 1..Len(q) |-> rowProbe(q[i])] : q \in orderLimit(joinRows(st, name), RecentLimit)}

\* DELETE with the comparison turned around
deleteOlderThan_newer(rows, limit) ==
    LET kept == {r \in BagToSet(rows) : timestampScan(r.captured_at) <= limit}
    IN [r \in kept |-> CopiesIn(r, rows)]

\* backend.deleteOlderThan: DELETE FROM probe WHERE captured_at < ?
deleteOlderThan(rows, limit) ==
    LET kept == {r \in BagToSet(rows) : ~(timestampScan(r.captured_at) < limit)}
    IN [r \in kept |-> CopiesIn(r, rows)]

----------------------------------------------------------------------------
(* lib/agent/server.go: the aggregator *)

\* a master recognised by its name instead of its role tag
isMaster_byName(member) == member.Name = "master"

isMaster(member) ==
    /\ "role" \in DOMAIN member.Tags
    /\ member.Tags["role"] = RoleMaster

\* the default branch returning running
nodeToSystemStatus_defaultRunning(status) ==
    CASE status = NodeStatus_Degraded -> SystemStatus_Degraded
      [] OTHER -> SystemStatus_Running

\* the default branch returning degraded
nodeToSystemStatus_defaultDegraded(status) ==
    CASE status = NodeStatus_Running -> SystemStatus_Running
      [] OTHER -> SystemStatus_Degraded

nodeToSystemStatus(status) ==
    CASE status = NodeStatus_Running -> SystemStatus_Running
      [] status = NodeStatus_Degraded -> SystemStatus_Degraded
      [] OTHER -> SystemStatus_Unknown

\* the loop body without the check of the member status
loopBody_noFailedCheck(st, node) ==
    [Status |-> IF st.Status = SystemStatus_Running
                THEN nodeToSystemStatus(node.Status) ELSE st.Status,
     foundMaster |-> st.foundMaster \/ isMaster(node.MemberStatus)]

\* the loop body with foundMaster assigned on every iteration
loopBody_lastMaster(st, node) ==
    [Status |-> IF node.MemberStatus.Status = MemberStatus_Failed THEN SystemStatus_Degraded
                ELSE IF st.Status = SystemStatus_Running
                THEN nodeToSystemStatus(node.Status) ELSE st.Status,
     foundMaster |-> isMaster(node.MemberStatus)]

\* the loop body assigning the node's status whatever the status so far
loopBody_noRunningGuard(st, node) ==
    [Status |-> IF node.MemberStatus.Status = MemberStatus_Failed THEN SystemStatus_Degraded
                ELSE nodeToSystemStatus(node.Status),
     foundMaster |-> st.foundMaster \/ isMaster(node.MemberStatus)]

\* One iteration of the loop of setSystemStatus over st = [Status, foundMaster].
loopBody(st, node) ==
    LET found == IF ~st.foundMaster /\ isMaster(node.MemberStatus)
                 THEN TRUE ELSE st.foundMaster
        s1 == IF st.Status = SystemStatus_Running
              THEN nodeToSystemStatus(node.Status) ELSE st.Status
        s2 == IF node.MemberStatus.Status = MemberStatus_Failed
              THEN SystemStatus_Degraded ELSE s1
    IN [Status |-> s2, foundMaster |-> found]

\* The loop state of setSystemStatus after its first k iterations.
RECURSIVE loopState(_, _)
loopState(nodes, k) ==
    IF k = 0 THEN [Status |-> SystemStatus_Running, foundMaster |-> FALSE]
    ELSE loopBody(loopState(nodes, k - 1), nodes[k])

setSystemStatus(r) ==
    LET st == loopState(r.Status.Nodes, Len(r.Status.Nodes))
    IN IF ~st.foundMaster
       THEN [Status |-> [r.Status EXCEPT !.Status = SystemStatus_Degraded],
             Summary |-> errNoMaster]
       ELSE [Status |-> [r.Status EXCEPT !.Status = st.Status],
             Summary |-> r.Summary]

----------------------------------------------------------------------------
(* Specification SpecAgg: setSystemStatus applied to every node list *)

\* setSystemStatus never reads a name.  The inputs name a node "master" when
\* its member status is alive or left and "node" otherwise, so that nodes
\* named master occur with every role tag and with none.
AggName(memberStatus) ==
    IF memberStatus \in {MemberStatus_Alive, MemberStatus_Left} THEN "master" ELSE "node"

AggNodes ==
    {NodeStatus(AggName(m), s, m, t) :
        s \in NodeStatus_Type, m \in MemberStatus_Type, t \in AggTags}

\* resp as a caller of setSystemStatus hands it over: any node list and no
\* summary; the status field it carries is overwritten before it is read
InitAgg ==
    /\ cache = [Status |-> SystemStatus_Unknown, Nodes |-> <<>>]
    /\ store = NewStore
    /\ ret = NoCall
    /\ out = <<>>
    /\ now = 0
    /\ sweeper = NewSweeper
    /\ heap = NewHeap
    /\ conc = NewConc
    /\ retry = NewRetry
    /\ agent = NewAgent
    /\ reporter = NewReporter
    /\ main = NewMain
    /\ calls = NewCalls
    /\ \E n \in 0..MaxNodes : \E nodes \in [1..n -> AggNodes] :
          resp = [Status |-> [Status |-> SystemStatus_Unknown, Nodes |-> nodes], Summary |-> ""]

CallSetSystemStatus ==
    /\ ret.op = "none"
    /\ resp' = setSystemStatus(resp)
    /\ ret' = [ret EXCEPT !.op = "setSystemStatus"]
    /\ UNCHANGED <<cache, store, out, now, sweeper, heap, conc, retry, agent, reporter, main, calls>>

NextAgg == CallSetSystemStatus

SpecAgg == InitAgg /\ [][NextAgg]_vars

----------------------------------------------------------------------------
(* package memory: the cache *)

\* pb Clone: a deep copy; values of the model are immutable
Clone(v) == v

\* index of the first entry with that name, 0 when there is none
RECURSIVE findNode(_, _, _)
findNode(nodes, name, i) ==
    IF i > Len(nodes) THEN 0
    ELSE IF nodes[i].Name = name THEN i
    ELSE findNode(nodes, name, i + 1)

\* UpdateNode that never looks for an existing entry
updateNodes_append(nodes, status) == Append(nodes, Clone(status))

\* UpdateNode that replaces the entry but never sets found
updateNodes_noFound(nodes, status) ==
    LET i == findNode(nodes, status.Name, 1)
    IN IF i # 0 THEN Append([nodes EXCEPT ![i] = Clone(status)], Clone(status))
       ELSE Append(nodes, Clone(status))

\* UpdateNode that drops the entry found and appends the new one
updateNodes_moveToEnd(nodes, status) ==
    LET i == findNode(nodes, status.Name, 1)
    IN IF i # 0
       THEN Append(SubSeq(nodes, 1, i - 1) \o SubSeq(nodes, i + 1, Len(nodes)), Clone(status))
       ELSE Append(nodes, Clone(status))

\* the node list after cache.UpdateNode(status)
updateNodes(nodes, status) ==
    LET i == findNode(nodes, status.Name, 1)
    IN IF i # 0 THEN [nodes EXCEPT ![i] = Clone(status)]
       ELSE Append(nodes, Clone(status))

\* cache.RecentStatus, which agent.recentStatus returns
RecentStatus(c) == Clone(c)

\* cache.RecentNodeStatus(name).  The loop variable node shadows the
\* parameter: the condition node.Name == node never refers to the requested
\* name, and what it yields for an entry is not determined by the source.  The
\* results are the clone of any entry (the first one the condition accepts)
\* and nil (NoNode) when it accepts none.
RecentNodeStatus(c, name) ==
    {NoNode} \cup {Clone(c.Nodes[i]) : i \in 1..Len(c.Nodes)}

\* agent.recentLocalStatus: the cached status of the agent's own node
recentLocalStatus(c, name) == RecentNodeStatus(c, name)

CacheNames == {"master", "node"}

\* role tag as the test fixture newMember sets it
newMemberTags(name) == IF name = "master" THEN RoleTag(RoleMaster) ELSE RoleTag(RoleNode)

\* statuses of alive members as a tick writes them: the node's own finalized
\* status (running) or the placeholder of an unreachable peer (unknown)
CacheNodes ==
    {NodeStatus(name, s, MemberStatus_Alive, newMemberTags(name)) :
        name \in CacheNames, s \in {NodeStatus_Running, NodeStatus_Unknown}}

Init ==
    /\ cache = [Status |-> SystemStatus_Unknown, Nodes |-> <<>>]
    /\ store = NewStore
    /\ resp = NoResp
    /\ ret = NoCall
    /\ out = <<>>
    /\ now = 0
    /\ sweeper = NewSweeper
    /\ heap = NewHeap
    /\ conc = NewConc
    /\ retry = NewRetry
    /\ agent = NewAgent
    /\ reporter = NewReporter
    /\ main = NewMain
    /\ calls = NewCalls

\* an Update that sets the status field and the entries of the nodes it is
\* given, and keeps the entries of every other node
Update_keepNodes(status, ok) ==
    /\ cache' = [Status |-> status.Status,
                 Nodes |-> SelectSeq(cache.Nodes,
                                     LAMBDA n : \A k \in 1..Len(status.Nodes) :
                                                   status.Nodes[k].Name # n.Name)
                           \o Clone(status).Nodes]
    /\ store' \in backendUpdate(store, status, ok)
    /\ resp' = NoResp
    /\ ret' = [op |-> "Update", node |-> NoNode, err |-> ~ok, again |-> FALSE,
               status |-> status]
    /\ UNCHANGED <<out, now, sweeper, heap, conc, retry, agent, reporter, main, calls>>

Update(status, ok) ==
    /\ cache' = Clone(status)
    /\ store' \in backendUpdate(store, status, ok)
    /\ resp' = NoResp
    /\ ret' = [op |-> "Update", node |-> NoNode, err |-> ~ok, again |-> FALSE,
               status |-> status]
    /\ UNCHANGED <<out, now, sweeper, heap, conc, retry, agent, reporter, main, calls>>

\* an UpdateNode that writes to the backend first and gives up when that fails
UpdateNode_backendFirst(status, ok) ==
    /\ cache' = IF ok THEN [cache EXCEPT !.Nodes = updateNodes(cache.Nodes, status)]
                ELSE cache
    /\ store' \in backendUpdateNode(store, status, IF ok THEN 0 ELSE -1)
    /\ resp' = NoResp
    /\ ret' = [op |-> "UpdateNode", node |-> status, err |-> ~ok,
               again |-> (ret.op = "UpdateNode" /\ ret.node = status)]
    /\ UNCHANGED <<out, now, sweeper, heap, conc, retry, agent, reporter, main, calls>>

UpdateNode(status, ok) ==
    /\ cache' = [cache EXCEPT !.Nodes = updateNodes(cache.Nodes, status)]
    /\ store' \in backendUpdateNode(store, status, IF ok THEN 0 ELSE -1)
    /\ resp' = NoResp
    /\ ret' = [op |-> "UpdateNode", node |-> status, err |-> ~ok,
               again |-> (ret.op = "UpdateNode" /\ ret.node = status)]
    /\ UNCHANGED <<out, now, sweeper, heap, conc, retry, agent, reporter, main, calls>>

\* server.Status that answers with the cached SystemStatus as it is stored
Status_asStored ==
    /\ resp' = [Status |-> RecentStatus(cache), Summary |-> ""]
    /\ ret' = [op |-> "Status", node |-> NoNode, err |-> FALSE, again |-> (ret.op = "Status")]
    /\ UNCHANGED <<cache, store, out, now, sweeper, heap, conc, retry, agent, reporter, main, calls>>

\* server.Status that hands the cache's own SystemStatus to setSystemStatus
Status_noClone ==
    /\ resp' = setSystemStatus([Status |-> cache, Summary |-> ""])
    /\ cache' = resp'.Status
    /\ ret' = [op |-> "Status", node |-> NoNode, err |-> FALSE, again |-> (ret.op = "Status")]
    /\ UNCHANGED <<store, out, now, sweeper, heap, conc, retry, agent, reporter, main, calls>>

Status ==
    /\ resp' = setSystemStatus([Status |-> RecentStatus(cache), Summary |-> ""])
    /\ ret' = [op |-> "Status", node |-> NoNode, err |-> FALSE, again |-> (ret.op = "Status")]
    /\ UNCHANGED <<cache, store, out, now, sweeper, heap, conc, retry, agent, reporter, main, calls>>

\* server.LocalStatus of the agent called name
LocalStatus(name) ==
    /\ \E status \in recentLocalStatus(cache, name) : resp' = [Status |-> status]
    /\ ret' = [op |-> "LocalStatus", node |-> [Name |-> name], err |-> FALSE, again |-> FALSE]
    /\ UNCHANGED <<cache, store, out, now, sweeper, heap, conc, retry, agent, reporter, main, calls>>

Next ==
    \/ \E s \in SystemStatus_Type, n \in 0..MaxUpdate, ok \in BOOLEAN :
          \E nodes \in [1..n -> CacheNodes] :
             Update([Status |-> s, Nodes |-> nodes], ok)
    \/ \E status \in CacheNodes, ok \in BOOLEAN : UpdateNode(status, ok)
    \/ Status
    \/ \E name \in CacheNames : LocalStatus(name)

Spec == Init /\ [][Next]_vars

----------------------------------------------------------------------------
(* Specification SpecAlias: the cache and its callers as pointers to objects *)

\* a new object of value v; its address is the next index of obj
alloc(h, v) == [h EXCEPT !.obj = Append(@, v)]
newest(h) == Len(h.obj)

\* the values behind the pointers of r.Nodes: what a read of the cache sees
Deref(h) == [i \in 1..Len(h.nodes) |-> h.obj[h.nodes[i]]]

\* a handoff that keeps the caller's pointer instead of a copy
CloneRef_alias(h, a) == [h |-> h, a |-> a]

\* x.Clone() where the cache takes an argument or hands out a result: a new
\* object with the value of the object at a
CloneRef(h, a) == [h |-> alloc(h, h.obj[a]), a |-> newest(h) + 1]

\* the caller's objects for the node list of a SystemStatus, with Update's
\* clones of them: [h, args, clones]
RECURSIVE cloneList(_, _, _, _)
cloneList(h, values, args, clones) ==
    IF values = <<>> THEN [h |-> h, args |-> args, clones |-> clones]
    ELSE LET h1 == alloc(h, Head(values))
             c == CloneRef(h1, newest(h1))
         IN cloneList(c.h, Tail(values), args \cup {newest(h1)}, Append(clones, c.a))

\* the clones RecentStatus returns for the entries from the i-th on
RECURSIVE cloneNodes(_, _, _)
cloneNodes(h, i, results) ==
    IF i > Len(h.nodes) THEN [h |-> h, results |-> results]
    ELSE LET c == CloneRef(h, h.nodes[i])
         IN cloneNodes(c.h, i + 1, results \cup {c.a})

\* cache.Update(status) by a caller that keeps its status
AliasUpdate(status) ==
    /\ Len(heap.obj) + 2 * Len(status.Nodes) <= MaxObjs
    /\ LET c == cloneList(heap, status.Nodes, {}, <<>>)
       IN heap' = [c.h EXCEPT !.nodes = c.clones, !.held = @ \cup c.args]
    /\ cache' = [Status |-> status.Status, Nodes |-> Deref(heap')]
    /\ store' \in backendUpdate(store, status, TRUE)
    /\ ret' = [op |-> "Update", node |-> NoNode, err |-> FALSE, again |-> FALSE]
    /\ UNCHANGED <<resp, out, now, sweeper, conc, retry, agent, reporter, main, calls>>

\* cache.UpdateNode(status) by a caller that keeps its status
AliasUpdateNode(status) ==
    /\ Len(heap.obj) + 2 <= MaxObjs
    /\ LET h1 == alloc(heap, status)
           c == CloneRef(h1, newest(h1))
           i == findNode(Deref(heap), status.Name, 1)
       IN heap' = [c.h EXCEPT !.nodes = IF i # 0 THEN [@ EXCEPT ![i] = c.a]
                                        ELSE Append(@, c.a),
                              !.held = @ \cup {newest(h1)}]
    /\ cache' = [cache EXCEPT !.Nodes = Deref(heap')]
    /\ store' \in backendUpdateNode(store, status, 0)
    /\ ret' = [op |-> "UpdateNode", node |-> status, err |-> FALSE, again |-> FALSE]
    /\ UNCHANGED <<resp, out, now, sweeper, conc, retry, agent, reporter, main, calls>>

\* cache.RecentStatus by a caller that keeps the result
AliasRecentStatus ==
    /\ Len(heap.obj) + Len(heap.nodes) <= MaxObjs
    /\ LET c == cloneNodes(heap, 1, {})
       IN heap' = [c.h EXCEPT !.given = @ \cup c.results]
    /\ cache' = [cache EXCEPT !.Nodes = Deref(heap')]
    /\ ret' = [op |-> "RecentStatus", node |-> NoNode, err |-> FALSE, again |-> FALSE]
    /\ UNCHANGED <<store, resp, out, now, sweeper, conc, retry, agent, reporter, main, calls>>

\* cache.RecentNodeStatus by a caller that keeps the result: the clone of the
\* entry the loop stops at
AliasRecentNodeStatus(i) ==
    /\ Len(heap.obj) + 1 <= MaxObjs
    /\ i \in 1..Len(heap.nodes)
    /\ LET c == CloneRef(heap, heap.nodes[i])
       IN heap' = [c.h EXCEPT !.given = @ \cup {c.a}]
    /\ cache' = [cache EXCEPT !.Nodes = Deref(heap')]
    /\ ret' = [op |-> "RecentNodeStatus", node |-> heap.obj[heap.nodes[i]],
               err |-> FALSE, again |-> FALSE]
    /\ UNCHANGED <<store, resp, out, now, sweeper, conc, retry, agent, reporter, main, calls>>

\* a caller assigns to an object it holds: an argument it passed or a result
\* it was given
Mutate(a, v) ==
    /\ a \in heap.held \cup heap.given
    /\ heap.obj[a] # v
    /\ heap' = [heap EXCEPT !.obj[a] = v]
    /\ cache' = [cache EXCEPT !.Nodes = Deref(heap')]
    /\ ret' = [op |-> "Mutate", node |-> v, err |-> FALSE, again |-> FALSE]
    /\ UNCHANGED <<store, resp, out, now, sweeper, conc, retry, agent, reporter, main, calls>>

NextAlias ==
    \/ \E s \in SystemStatus_Type, n \in 0..MaxUpdate :
          \E nodes \in [1..n -> CacheNodes] :
             AliasUpdate([Status |-> s, Nodes |-> nodes])
    \/ \E status \in CacheNodes : AliasUpdateNode(status)
    \/ AliasRecentStatus
    \/ \E i \in 1..MaxObjs : AliasRecentNodeStatus(i)
    \/ \E a \in 1..MaxObjs, v \in CacheNodes : Mutate(a, v)

SpecAlias == Init /\ [][NextAlias]_vars

----------------------------------------------------------------------------
(* Specification SpecConc: one goroutine writing the cache, others reading *)

\* what the writer passes: a SystemStatus to Update, a NodeStatus to UpdateNode
ConcUpdates ==
    {[Status |-> st, Nodes |-> nodes] :
        st \in {SystemStatus_Running, SystemStatus_Degraded},
        nodes \in {<<>>} \cup {<<n>> : n \in {c \in CacheNodes : c.Status = NodeStatus_Running}}}

setWriter(pc) == [conc EXCEPT !.wr.pc = pc]
setReader(i, pc, res) == [conc EXCEPT !.rd[i].pc = pc, !.rd[i].res = res]

\* the writer enters Update or UpdateNode
WriterCall(op, arg) ==
    /\ conc.wr.pc = "idle"
    /\ conc' = [conc EXCEPT !.wr = [pc |-> "Lock", op |-> op, arg |-> arg]]
    /\ UNCHANGED <<cache, store, resp, ret, out, now, sweeper, heap, retry, agent, reporter, main, calls>>

\* r.mu.Lock(): waits until no goroutine holds the mutex
WriterLock ==
    /\ conc.wr.pc = "Lock"
    /\ ~conc.mu.w /\ conc.mu.r = 0
    /\ conc' = [conc EXCEPT !.mu.w = TRUE, !.wr.pc = "write"]
    /\ UNCHANGED <<cache, store, resp, ret, out, now, sweeper, heap, retry, agent, reporter, main, calls>>

\* UpdateNode: the assignment to r.Nodes[i] or the append.  Update: the
\* assignment of the struct copies its fields one after the other, in an
\* order the language does not fix
WriterWrite ==
    /\ conc.wr.pc = "write"
    /\ \/ /\ conc.wr.op = "UpdateNode"
          /\ cache' = [cache EXCEPT !.Nodes = updateNodes(cache.Nodes, conc.wr.arg)]
          /\ conc' = setWriter("Unlock")
       \/ /\ conc.wr.op = "Update"
          /\ cache' = [cache EXCEPT !.Status = Clone(conc.wr.arg).Status]
          /\ conc' = setWriter("writeNodes")
       \/ /\ conc.wr.op = "Update"
          /\ cache' = [cache EXCEPT !.Nodes = Clone(conc.wr.arg).Nodes]
          /\ conc' = setWriter("writeStatus")
    /\ UNCHANGED <<store, resp, ret, out, now, sweeper, heap, retry, agent, reporter, main, calls>>

\* Update: the field of the struct still to copy
WriterWriteRest ==
    /\ \/ /\ conc.wr.pc = "writeNodes"
          /\ cache' = [cache EXCEPT !.Nodes = Clone(conc.wr.arg).Nodes]
       \/ /\ conc.wr.pc = "writeStatus"
          /\ cache' = [cache EXCEPT !.Status = Clone(conc.wr.arg).Status]
    /\ conc' = setWriter("Unlock")
    /\ UNCHANGED <<store, resp, ret, out, now, sweeper, heap, retry, agent, reporter, main, calls>>

\* r.mu.Unlock(): the write is complete
WriterUnlock ==
    /\ conc.wr.pc = "Unlock"
    /\ conc' = [conc EXCEPT !.mu.w = FALSE, !.committed = cache, !.wr.pc = "backend"]
    /\ UNCHANGED <<cache, store, resp, ret, out, now, sweeper, heap, retry, agent, reporter, main, calls>>

\* return r.backend.Update(status) / r.backend.UpdateNode(status)
WriterBackend(ok) ==
    /\ conc.wr.pc = "backend"
    /\ store' \in IF conc.wr.op = "Update" THEN backendUpdate(store, conc.wr.arg, ok)
                ELSE backendUpdateNode(store, conc.wr.arg, IF ok THEN 0 ELSE -1)
    /\ conc' = [conc EXCEPT !.wr = IdleWriter]
    /\ UNCHANGED <<cache, resp, ret, out, now, sweeper, heap, retry, agent, reporter, main, calls>>

\* reader i enters RecentStatus or RecentNodeStatus
ReaderCall(i, op) ==
    /\ conc.rd[i].pc = "idle"
    /\ conc' = [conc EXCEPT !.rd[i] = [pc |-> "RLock", op |-> op, res |-> NoNode]]
    /\ UNCHANGED <<cache, store, resp, ret, out, now, sweeper, heap, retry, agent, reporter, main, calls>>

\* an RLock that does not wait for the writer
ReaderRLock_noWait(i) ==
    /\ conc.rd[i].pc = "RLock"
    /\ conc' = [conc EXCEPT !.mu.r = @ + 1, !.rd[i].pc = "read"]
    /\ UNCHANGED <<cache, store, resp, ret, out, now, sweeper, heap, retry, agent, reporter, main, calls>>

\* r.mu.RLock(): waits while the writer holds the mutex
ReaderRLock(i) ==
    /\ conc.rd[i].pc = "RLock"
    /\ ~conc.mu.w
    /\ conc' = [conc EXCEPT !.mu.r = @ + 1, !.rd[i].pc = "read"]
    /\ UNCHANGED <<cache, store, resp, ret, out, now, sweeper, heap, retry, agent, reporter, main, calls>>

\* RecentNodeStatus: the clone of the entry the loop stops at, or nil.
\* RecentStatus: Clone copies the fields one after the other
ReaderRead(i) ==
    /\ conc.rd[i].pc = "read"
    /\ \/ /\ conc.rd[i].op = "RecentNodeStatus"
          /\ \E n \in RecentNodeStatus(cache, "") : conc' = setReader(i, "RUnlock", n)
       \/ /\ conc.rd[i].op = "RecentStatus"
          /\ conc' = setReader(i, "readNodes", [Status |-> cache.Status, Nodes |-> <<>>])
       \/ /\ conc.rd[i].op = "RecentStatus"
          /\ conc' = setReader(i, "readStatus",
                               [Status |-> SystemStatus_Unknown, Nodes |-> cache.Nodes])
    /\ UNCHANGED <<cache, store, resp, ret, out, now, sweeper, heap, retry, agent, reporter, main, calls>>

\* RecentStatus: the field of the clone still to copy
ReaderReadRest(i) ==
    /\ \/ /\ conc.rd[i].pc = "readNodes"
          /\ conc' = setReader(i, "RUnlock", [conc.rd[i].res EXCEPT !.Nodes = cache.Nodes])
       \/ /\ conc.rd[i].pc = "readStatus"
          /\ conc' = setReader(i, "RUnlock", [conc.rd[i].res EXCEPT !.Status = cache.Status])
    /\ UNCHANGED <<cache, store, resp, ret, out, now, sweeper, heap, retry, agent, reporter, main, calls>>

\* the deferred r.mu.RUnlock(), and the return of the result
ReaderRUnlock(i) ==
    /\ conc.rd[i].pc = "RUnlock"
    /\ conc' = [conc EXCEPT !.mu.r = @ - 1, !.rd[i] = IdleReader]
    /\ UNCHANGED <<cache, store, resp, ret, out, now, sweeper, heap, retry, agent, reporter, main, calls>>

NextConc ==
    \/ \E status \in ConcUpdates : WriterCall("Update", status)
    \/ \E status \in CacheNodes : WriterCall("UpdateNode", status)
    \/ WriterLock
    \/ WriterWrite
    \/ WriterWriteRest
    \/ WriterUnlock
    \/ \E ok \in BOOLEAN : WriterBackend(ok)
    \/ \E i \in Readers, op \in {"RecentStatus", "RecentNodeStatus"} : ReaderCall(i, op)
    \/ \E i \in Readers : ReaderRLock(i)
    \/ \E i \in Readers : ReaderRead(i)
    \/ \E i \in Readers : ReaderReadRest(i)
    \/ \E i \in Readers : ReaderRUnlock(i)

SpecConc == Init /\ [][NextConc]_vars

----------------------------------------------------------------------------
(* Specifications SpecStore and SpecRecent: the sqlite backend on its own *)

\* a probe as a checker reports it at instant t
StoreProbe(status, t) ==
    [Checker |-> "etcd", Extra |-> "", Status |-> status,
     Error |-> IF status = Probe_Failed THEN "connection refused" ELSE "",
     Timestamp |-> t]

\* the NodeStatus of a tick: its probes share the tick's instant
StoreStatus(name, statuses, t) ==
    [Name |-> name, Probes |-> [i \in 1..Len(statuses) |-> StoreProbe(statuses[i], t)]]

InitStore ==
    /\ cache = [Status |-> SystemStatus_Unknown, Nodes |-> <<>>]
    /\ store = NewStore
    /\ resp = NoResp
    /\ ret = NoCall
    /\ out = <<>>
    /\ now = 0
    /\ sweeper = NewSweeper
    /\ heap = NewHeap
    /\ conc = NewConc
    /\ retry = NewRetry
    /\ agent = NewAgent
    /\ reporter = NewReporter
    /\ main = NewMain
    /\ calls = NewCalls

\* backend.UpdateNode(status)
StoreUpdateNode(status, fail) ==
    /\ store' \in backendUpdateNode(store, status, fail)
    /\ ret' = [op |-> "backend.UpdateNode", node |-> status,
               err |-> (store.done \/ fail # 0), again |-> FALSE]
    /\ out' = <<>>
    /\ UNCHANGED <<cache, resp, now, sweeper, heap, conc, retry, agent, reporter, main, calls>>

\* backend.RecentStatus(name); the query fails on a closed database
StoreRecentStatus(name) ==
    /\ IF store.done THEN out' = <<>>
       ELSE \E probes \in backendRecentStatus(store, name) : out' = probes
    /\ ret' = [op |-> "backend.RecentStatus", node |-> [Name |-> name],
               err |-> store.done, again |-> FALSE]
    /\ UNCHANGED <<cache, store, resp, now, sweeper, heap, conc, retry, agent, reporter, main, calls>>

\* backend.Close: close(r.done), then r.DB.Close()
StoreClose ==
    /\ ~store.done
    /\ store' = [store EXCEPT !.done = TRUE]
    /\ ret' = [op |-> "backend.Close", node |-> NoNode, err |-> FALSE, again |-> FALSE]
    /\ out' = <<>>
    /\ UNCHANGED <<cache, resp, now, sweeper, heap, conc, retry, agent, reporter, main, calls>>

\* a scavengeLoop that returns when deleteOlderThan fails
Scavenge_stopOnError(ok) ==
    /\ sweeper.pc = "select"
    /\ now >= sweeper.timer
    /\ LET deleted == ok /\ ~store.done
           rows == IF deleted THEN deleteOlderThan(store.probe, now - scavengeTimeout)
                   ELSE store.probe
       IN /\ store' = [store EXCEPT !.probe = rows]
          /\ ret' = [op |-> "deleteOlderThan", node |-> NoNode, err |-> ~deleted,
                     again |-> (ret.op = "deleteOlderThan" /\ ret.err),
                     deleted |-> BagCardinality(store.probe) - BagCardinality(rows)]
    /\ sweeper' = IF ok /\ ~store.done THEN [sweeper EXCEPT !.timer = now + scavengeTimeout]
                  ELSE [sweeper EXCEPT !.pc = "exited"]
    /\ out' = <<>>
    /\ UNCHANGED <<cache, resp, now, heap, conc, retry, agent, reporter, main, calls>>

\* the select of scavengeLoop takes the timer case, which can proceed once
\* the timer has fired (also when done can proceed as well: select then
\* chooses either case), and runs deleteOlderThan(time.Now() - scavengeTimeout);
\* the loop then waits on a new timer.  The delete fails on a closed database
\* and when ok is FALSE.
Scavenge(ok) ==
    /\ sweeper.pc = "select"
    /\ now >= sweeper.timer
    /\ LET deleted == ok /\ ~store.done
           rows == IF deleted THEN deleteOlderThan(store.probe, now - scavengeTimeout)
                   ELSE store.probe
       IN /\ store' = [store EXCEPT !.probe = rows]
          /\ ret' = [op |-> "deleteOlderThan", node |-> NoNode, err |-> ~deleted,
                     again |-> (ret.op = "deleteOlderThan" /\ ret.err),
                     deleted |-> BagCardinality(store.probe) - BagCardinality(rows)]
    /\ sweeper' = [sweeper EXCEPT !.timer = now + scavengeTimeout]
    /\ out' = <<>>
    /\ UNCHANGED <<cache, resp, now, heap, conc, retry, agent, reporter, main, calls>>

\* the select of scavengeLoop takes the case <-r.done and returns
ScavengeExit ==
    /\ sweeper.pc = "select"
    /\ store.done
    /\ sweeper' = [sweeper EXCEPT !.pc = "exited"]
    /\ UNCHANGED <<cache, store, resp, ret, out, now, heap, conc, retry, agent, reporter, main, calls>>

\* a day passes
Tick ==
    /\ now < MaxTime
    /\ now' = now + 1
    /\ UNCHANGED <<cache, store, resp, ret, out, sweeper, heap, conc, retry, agent, reporter, main, calls>>

StoreRest(names) ==
    \/ \E name \in names : StoreRecentStatus(name)
    \/ StoreClose
    \/ \E ok \in BOOLEAN : Scavenge(ok)
    \/ ScavengeExit
    \/ Tick

\* the backend of one node, fed probes of every status, with failing inserts
StoreNames == {"master"}

NextStore ==
    \/ \E name \in StoreNames, n \in 0..MaxProbes :
          \E statuses \in [1..n -> Probe_Type], fail \in -1..n :
             /\ BagCardinality(store.probe) + n <= MaxRows
             /\ StoreUpdateNode(StoreStatus(name, statuses, now), fail)
    \/ StoreRest(StoreNames)

SpecStore == InitStore /\ [][NextStore]_vars

\* the backend fed one running probe per call, up to MaxRecentRows rows
NextRecent ==
    \/ \E name \in CacheNames :
          /\ BagCardinality(store.probe) < MaxRecentRows
          /\ StoreUpdateNode(StoreStatus(name, <<Probe_Running>>, now), 0)
    \/ StoreRest(CacheNames)

SpecRecent == InitStore /\ [][NextRecent]_vars

----------------------------------------------------------------------------
(* Specification SpecStamp: the cache given statuses with their captured_at *)

\* the running status of an alive member whose probe was captured at t
StampNode(name, t) ==
    [Name |-> name, Status |-> NodeStatus_Running,
     MemberStatus |-> [Name |-> name, Status |-> MemberStatus_Alive,
                       Tags |-> newMemberTags(name)],
     Probes |-> <<StoreProbe(Probe_Running, t)>>]

NextStamp ==
    \/ \E name \in CacheNames, t \in 0..MaxTime, ok \in BOOLEAN :
          /\ BagCardinality(store.probe) < MaxRows
          /\ UpdateNode(StampNode(name, t), ok)
    \/ \E name \in CacheNames, t \in 0..MaxTime :
          /\ BagCardinality(store.probe) >= MaxRows
          /\ UpdateNode(StampNode(name, t), FALSE)
    \/ Status

SpecStamp == Init /\ [][NextStamp]_vars

----------------------------------------------------------------------------
(* Specification SpecCli: the status command of tool/agent *)

\* main: log.Fatalln after run returned an error, else the end of main
exitCode(err) == IF err THEN 1 ELSE 0

\* status(rpcAddr): newClient or client.status() fail with a transport error
\* (fail), or the agent answers with its Status response, which is logged
StatusCmd(fail) ==
    /\ resp' = IF fail THEN NoResp
               ELSE setSystemStatus([Status |-> RecentStatus(cache), Summary |-> ""])
    /\ ret' = [op |-> "status command", node |-> NoNode, err |-> fail, again |-> FALSE,
               exit |-> exitCode(fail)]
    /\ UNCHANGED <<cache, store, out, now, sweeper, heap, conc, retry, agent, reporter, main, calls>>

NextCli ==
    \/ \E status \in CacheNodes, ok \in BOOLEAN : UpdateNode(status, ok)
    \/ \E fail \in BOOLEAN : StatusCmd(fail)

SpecCli == Init /\ [][NextCli]_vars

----------------------------------------------------------------------------
(* Specification SpecRetry: utils.Retry(ctx, times, period, fn), period > 0 *)

\* err, the variable of Retry: what the last call of fn returned
lastErr(r) == IF r.errs = <<>> THEN NoError ELSE r.errs[Len(r.errs)]

returnErr(r) == [r EXCEPT !.pc = "returned", !.result = lastErr(r)]

\* Retry is called; the context may be cancelled already
InitRetry ==
    /\ cache = [Status |-> SystemStatus_Unknown, Nodes |-> <<>>]
    /\ store = NewStore
    /\ resp = NoResp
    /\ ret = NoCall
    /\ out = <<>>
    /\ now = 0
    /\ sweeper = NewSweeper
    /\ heap = NewHeap
    /\ conc = NewConc
    /\ agent = NewAgent
    /\ reporter = NewReporter
    /\ main = NewMain
    /\ calls = NewCalls
    /\ \E times \in -1..MaxTimes, cancelled \in BOOLEAN :
          retry = [times |-> times, i |-> 0, pc |-> "loop", cancelled |-> cancelled,
                   errs |-> <<>>, result |-> NotReturned]

\* a loop that looks at the context before it calls fn
RetryLoop_checkCtx ==
    /\ retry.pc = "loop"
    /\ retry' = IF retry.i < retry.times /\ ~retry.cancelled THEN [retry EXCEPT !.pc = "call"]
                ELSE returnErr(retry)
    /\ UNCHANGED <<cache, store, resp, ret, out, now, sweeper, heap, conc, agent, reporter, main, calls>>

\* for i := 0; i < times; ...  and, after the loop, return trace.Wrap(err)
RetryLoop ==
    /\ retry.pc = "loop"
    /\ retry' = IF retry.i < retry.times THEN [retry EXCEPT !.pc = "call"]
                ELSE returnErr(retry)
    /\ UNCHANGED <<cache, store, resp, ret, out, now, sweeper, heap, conc, agent, reporter, main, calls>>

\* a Retry that goes on after fn returned nil
RetryCall_ignoreNil(ok) ==
    /\ retry.pc = "call"
    /\ retry' = [retry EXCEPT !.errs = Append(@, IF ok THEN NoError ELSE retry.i + 1),
                              !.pc = "select"]
    /\ UNCHANGED <<cache, store, resp, ret, out, now, sweeper, heap, conc, agent, reporter, main, calls>>

\* err = fn(); if err == nil { return nil }
RetryCall(ok) ==
    /\ retry.pc = "call"
    /\ LET r == [retry EXCEPT !.errs = Append(@, IF ok THEN NoError ELSE retry.i + 1)]
       IN retry' = IF ok THEN returnErr(r) ELSE [r EXCEPT !.pc = "select"]
    /\ UNCHANGED <<cache, store, resp, ret, out, now, sweeper, heap, conc, agent, reporter, main, calls>>

\* the select is entered: with ctx.Done() closed already it returns err, the
\* timer just started cannot have fired; otherwise the goroutine blocks
RetrySelect ==
    /\ retry.pc = "select"
    /\ retry' = IF retry.cancelled THEN returnErr(retry) ELSE [retry EXCEPT !.pc = "wait"]
    /\ UNCHANGED <<cache, store, resp, ret, out, now, sweeper, heap, conc, agent, reporter, main, calls>>

\* the context is cancelled; a goroutine blocked in the select is woken with
\* the case <-ctx.Done()
RetryCancel ==
    /\ ~retry.cancelled
    /\ retry.pc \notin {"idle", "returned"}
    /\ retry' = [retry EXCEPT !.cancelled = TRUE,
                              !.pc = IF @ = "wait" THEN "done" ELSE @]
    /\ UNCHANGED <<cache, store, resp, ret, out, now, sweeper, heap, conc, agent, reporter, main, calls>>

\* period has elapsed: the blocked goroutine is woken with the case
\* <-time.After(period)
RetryTimer ==
    /\ retry.pc = "wait"
    /\ retry' = [retry EXCEPT !.pc = "timer"]
    /\ UNCHANGED <<cache, store, resp, ret, out, now, sweeper, heap, conc, agent, reporter, main, calls>>

\* the woken goroutine runs its case: return err, or i += 1 and the loop
RetryResume ==
    /\ retry.pc \in {"done", "timer"}
    /\ retry' = IF retry.pc = "done" THEN returnErr(retry)
                ELSE [retry EXCEPT !.i = @ + 1, !.pc = "loop"]
    /\ UNCHANGED <<cache, store, resp, ret, out, now, sweeper, heap, conc, agent, reporter, main, calls>>

NextRetry ==
    \/ RetryLoop
    \/ \E ok \in BOOLEAN : RetryCall(ok)
    \/ RetrySelect
    \/ RetryCancel
    \/ RetryTimer
    \/ RetryResume

SpecRetry == InitRetry /\ [][NextRetry]_vars

----------------------------------------------------------------------------
(* Specification SpecCheck: the checkers and the reporter *)

StatusFailed == "StatusFailed"

\* NewProbeFromErr(name, err): the failed probe of an error
NewProbeFromErr(name, err) ==
    [Checker |-> name, Status |-> Probe_Failed, Error |-> err]

\* KubeChecker.Check: the probes it adds when connect fails, when the wrapped
\* checker fails, and when both succeed
kubeCheckerCheck(name, path) ==
    CASE path = "connect" -> <<NewProbeFromErr(name, "hostPort cannot be empty")>>
      [] path = "checker" -> <<NewProbeFromErr(name, "failed to query nodes")>>
      [] OTHER -> <<[Status |-> Probe_Running]>>

infoCheckers ==
    <<"system-version", "systemd-version", "docker-version", "etcd-version",
      "kubelet-version", "dnsmasq-version", "dbus-version", "serf-version",
      "flanneld-version", "registry-version">>

\* VersionCollector.Check: a running probe for every component, whether its
\* command failed or not
versionCollectorCheck ==
    [k \in 1..Len(infoCheckers) |-> [Checker |-> infoCheckers[k], Status |-> Probe_Running]]

\* the healthz check whose probe for an unexpected HTTP status has no error
httpHealthzCheck_noError(name, path) ==
    CASE path = "get" -> <<NewProbeFromErr(name, "healthz check failed: timeout")>>
      [] path = "status" ->
            <<[Checker |-> name, Status |-> Probe_Failed, Error |-> "", Code |-> "500"]>>
      [] path = "checker" -> <<NewProbeFromErr(name, "unexpected healthz response: no")>>
      [] OTHER -> <<[Checker |-> name, Status |-> Probe_Running]>>

\* HttpHealthzChecker.Check: the GET fails, the status is not 200, the
\* response checker rejects the body, or all is well
httpHealthzCheck(name, path) ==
    CASE path = "get" -> <<NewProbeFromErr(name, "healthz check failed: timeout")>>
      [] path = "status" ->
            <<[Checker |-> name, Status |-> Probe_Failed,
               Error |-> "unexpected HTTP status: Internal Server Error", Code |-> "500"]>>
      [] path = "checker" -> <<NewProbeFromErr(name, "unexpected healthz response: no")>>
      [] OTHER -> <<[Checker |-> name, Status |-> Probe_Running]>>

\* nodesStatusChecker.Check; its Name() is a constant
nodesStatusCheck(path) ==
    CASE path = "connect" ->
            <<NewProbeFromErr("nodesstatuses", "failed to connect to kube: refused")>>
      [] path = "list" ->
            <<NewProbeFromErr("nodesstatuses", "failed to query nodes: refused")>>
      [] path = "threshold" ->
            <<[Checker |-> "nodesstatuses", Status |-> Probe_Failed,
               Error |-> "Not enough ready nodes: 0 (threshold 1)"]>>
      [] OTHER -> <<[Checker |-> "nodesstatuses", Status |-> Probe_Running]>>

\* the reporter handed to check: add(err) and addProbe(probe) name the checker
reporterAdd(name, err) == NewProbeFromErr(name, err)
reporterAddProbe(name, probe) == [probe EXCEPT !.Checker = name]

\* componentStatusChecker.check: an error of the connection or of the query,
\* or a probe for every condition of every component (healthy[k]: the k-th
\* condition is ComponentHealthy and true)
componentStatusCheck(name, path, healthy) ==
    CASE path = "connect" -> <<reporterAdd(name, "failed to connect to kube: refused")>>
      [] path = "list" -> <<reporterAdd(name, "failed to query component statuses: refused")>>
      [] OTHER ->
            [k \in 1..Len(healthy) |->
                reporterAddProbe(name,
                    IF healthy[k]
                    THEN [Checker |-> "", Extra |-> "scheduler", Status |-> Probe_Running,
                          Error |-> "ok"]
                    ELSE [Checker |-> "", Extra |-> "scheduler", Status |-> Probe_Failed,
                          Error |-> "unhealthy (timeout)"])]

\* fakeChecker.Check
fakeCheck(name, err) ==
    IF err # "" THEN <<[Checker |-> name, Error |-> err, Status |-> Probe_Failed]>>
    ELSE <<[Checker |-> name, Status |-> Probe_Running]>>

\* defaultReporter.Add(checker, err)
defaultReporterAdd(checker, err) ==
    <<[Checker |-> checker, Message |-> err, Status |-> StatusFailed]>>

\* one run of a checker against the reporter: r.status.Probes = append(...)
CheckRun(checker, path, added) ==
    /\ Len(reporter.runs) < MaxRuns
    /\ reporter' = [probes |-> reporter.probes \o added,
                    runs |-> Append(reporter.runs,
                                    [checker |-> checker, path |-> path, n |-> Len(added)])]
    /\ UNCHANGED <<cache, store, resp, ret, out, now, sweeper, heap, conc, retry, agent, main, calls>>

\* NewDefaultReporter: the next tick starts with a reporter of its own
FreshReporter ==
    /\ reporter.runs # <<>>
    /\ reporter' = NewReporter
    /\ UNCHANGED <<cache, store, resp, ret, out, now, sweeper, heap, conc, retry, agent, main, calls>>

NextCheck ==
    \/ \E path \in {"connect", "checker", "ok"} :
          CheckRun("KubeChecker", path, kubeCheckerCheck("kube-apiserver", path))
    \/ CheckRun("VersionCollector", "ok", versionCollectorCheck)
    \/ \E path \in {"get", "status", "checker", "ok"} :
          CheckRun("HttpHealthzChecker", path, httpHealthzCheck("kubelet", path))
    \/ \E path \in {"connect", "list", "threshold", "ok"} :
          CheckRun("nodesStatusChecker", path, nodesStatusCheck(path))
    \/ \E path \in {"connect", "list", "ok"}, n \in 0..MaxConditions :
          \E healthy \in [1..n -> BOOLEAN] :
              CheckRun("componentStatusChecker", path, componentStatusCheck("cs", path, healthy))
    \/ \E err \in {"", "invalid state"} :
          CheckRun("fakeChecker", IF err = "" THEN "ok" ELSE "err", fakeCheck("service", err))
    \/ CheckRun("defaultReporter", "Add", defaultReporterAdd("etcd", "connection refused"))
    \/ FreshReporter

SpecCheck == Init /\ [][NextCheck]_vars

----------------------------------------------------------------------------
(* Specification SpecTick: the status update loop of two agents *)

\* newMember(name, "alive") of the test fixture
newMember(name) ==
    [Name |-> name, Status |-> MemberStatus_Alive, Tags |-> newMemberTags(name)]

\* the member lists of agentTestCases, and the first with the agents swapped
TickMembers ==
    {<<newMember("master"), newMember("node")>>,
     <<newMember("node-1"), newMember("node-2")>>,
     <<newMember("node"), newMember("master")>>}

memberOf(a) == IF a = "local" THEN agent.members[1] ELSE agent.members[2]
cacheOf(a) == IF a = "local" THEN cache ELSE agent.peer
peerOf(a) == IF a = "local" THEN "remote" ELSE "local"

\* the probes of healthyTest and of a second checker that fails with err or
\* not at all, captured at t
tickProbes(err, t) ==
    LET probes == fakeCheck("healthy service", "") \o
                  fakeCheck(IF err = "" THEN "healthy service" ELSE "failing service", err)
    IN [k \in 1..Len(probes) |->
           [Checker |-> probes[k].Checker, Extra |-> "", Status |-> probes[k].Status,
            Error |-> IF "Error" \in DOMAIN probes[k] THEN probes[k].Error ELSE "",
            Timestamp |-> t]]

AllRunning(probes) == \A k \in 1..Len(probes) : probes[k].Status = Probe_Running

\* a node that runs as soon as one of its probes does
finalize_anyRunning(member, probes) ==
    [Name |-> member.Name,
     Status |-> IF \E k \in 1..Len(probes) : probes[k].Status = Probe_Running
                THEN NodeStatus_Running ELSE NodeStatus_Degraded,
     MemberStatus |-> member,
     Probes |-> probes]

\* the local NodeStatus at the end of the probe run: running iff every probe
\* is running, degraded otherwise
finalize(member, probes) ==
    [Name |-> member.Name,
     Status |-> IF AllRunning(probes) THEN NodeStatus_Running ELSE NodeStatus_Degraded,
     MemberStatus |-> member,
     Probes |-> probes]

\* the placeholder of a peer that did not answer
unknownNodeStatus(member) ==
    [Name |-> member.Name, Status |-> NodeStatus_Unknown, MemberStatus |-> member]

\* what the fan-out call to a member contributes: the placeholder when the
\* call fails, else the status the peer's LocalStatus returns, a peer with
\* nothing to return counting as unknown
fanOut(member, peerCache, reachable) ==
    IF ~reachable THEN {unknownNodeStatus(member)}
    ELSE {IF status = NoNode THEN unknownNodeStatus(member) ELSE status :
             status \in recentLocalStatus(peerCache, member.Name)}

\* the rows a write of these nodes adds to the store
RECURSIVE probeCount(_)
probeCount(nodes) ==
    IF nodes = <<>> THEN 0 ELSE Len(ProbesOf(Head(nodes))) + probeCount(Tail(nodes))

\* steps (a) to (c) of a tick: run the checkers against a fresh reporter,
\* finalize the local NodeStatus, cache.UpdateNode.  The store of the peer is
\* no part of the state: its cache never reads it.
TickCheck(a, err, ok) ==
    LET status == finalize(memberOf(a), tickProbes(err, now))
        c == [cacheOf(a) EXCEPT !.Nodes = updateNodes(@, status)]
    IN /\ agent.pc[a] = "idle"
       /\ ok => /\ a = "local"
                /\ BagCardinality(store.probe) + probeCount(<<status>>) <= MaxRows
       /\ cache' = IF a = "local" THEN c ELSE cache
       /\ store' \in IF a = "local"
                     THEN backendUpdateNode(store, status, IF ok THEN 0 ELSE -1) ELSE {store}
       /\ agent' = [agent EXCEPT !.pc[a] = "checked", !.status[a] = status,
                                 !.peer = IF a = "remote" THEN c ELSE @]
       /\ resp' = NoResp
       /\ ret' = [op |-> "check", node |-> status, err |-> ~ok, again |-> FALSE]
       /\ UNCHANGED <<out, now, sweeper, heap, conc, retry, reporter, main, calls>>

\* steps (d) to (h): fan out LocalStatus to the other alive member, merge its
\* answer with the local status in the order of the member list, aggregate,
\* cache.Update
TickCollect(a, reachable, ok) ==
    \E remote \in fanOut(memberOf(peerOf(a)), cacheOf(peerOf(a)), reachable) :
        LET nodes == IF a = "local" THEN <<agent.status[a], remote>>
                     ELSE <<remote, agent.status[a]>>
            status == setSystemStatus(
                          [Status |-> [Status |-> SystemStatus_Unknown, Nodes |-> nodes],
                           Summary |-> ""]).Status
        IN /\ agent.pc[a] = "checked"
           /\ ok => /\ a = "local"
                    /\ BagCardinality(store.probe) + probeCount(nodes) <= MaxRows
           /\ cache' = IF a = "local" THEN Clone(status) ELSE cache
           /\ store' \in IF a = "local" THEN backendUpdate(store, status, ok) ELSE {store}
           /\ agent' = [agent EXCEPT
                           !.pc[a] = "idle",
                           !.peer = IF a = "remote" THEN Clone(status) ELSE @,
                           !.seen = IF a = "local"
                                    THEN [reachable |-> reachable,
                                          peer |-> agent.status["remote"]]
                                    ELSE @,
                           !.failed[a] = @ \/ ~AllRunning(agent.status[a].Probes)]
           /\ resp' = NoResp
           /\ ret' = [op |-> "tick", node |-> [Name |-> memberOf(a).Name], err |-> ~ok,
                      again |-> agent.failed[a], reachable |-> reachable]
           /\ UNCHANGED <<out, now, sweeper, heap, conc, retry, reporter, main, calls>>

InitTick ==
    /\ cache = [Status |-> SystemStatus_Unknown, Nodes |-> <<>>]
    /\ store = NewStore
    /\ resp = NoResp
    /\ ret = NoCall
    /\ out = <<>>
    /\ now = 0
    /\ sweeper = NewSweeper
    /\ heap = NewHeap
    /\ conc = NewConc
    /\ retry = NewRetry
    /\ agent \in {[NewAgent EXCEPT !.members = members] : members \in TickMembers}
    /\ reporter = NewReporter
    /\ main = NewMain
    /\ calls = NewCalls

NextTick ==
    \/ \E a \in Agents, err \in {"", "invalid state"}, ok \in BOOLEAN : TickCheck(a, err, ok)
    \/ \E a \in Agents, reachable, ok \in BOOLEAN : TickCollect(a, reachable, ok)
    \/ Status

SpecTick == InitTick /\ [][NextTick]_vars

----------------------------------------------------------------------------
(* Specification SpecText: agentpb/status.go, the text form of the status types *)

StatusTypes ==
    [SystemStatus_Type |-> SystemStatus_Type, NodeStatus_Type |-> NodeStatus_Type,
     Probe_Type |-> Probe_Type, MemberStatus_Type |-> MemberStatus_Type]

\* the texts handed to UnmarshalText: those MarshalText writes, "" for the
\* nil it returns (UnmarshalText reads string(text)), and others
Texts ==
    {"", "running", "degraded", "healthy", "failed", "terminated", "alive", "leaving",
     "left", "none", "unknown", "Running"}

\* UnmarshalText that reads a running node as "running"
UnmarshalText_running(type, text) ==
    CASE type = "SystemStatus_Type" ->
            (CASE text = "running" -> SystemStatus_Running
               [] text = "degraded" -> SystemStatus_Degraded
               [] OTHER -> SystemStatus_Unknown)
      [] type = "NodeStatus_Type" ->
            (CASE text = "running" -> NodeStatus_Running
               [] text = "degraded" -> NodeStatus_Degraded
               [] OTHER -> NodeStatus_Unknown)
      [] type = "Probe_Type" ->
            (CASE text = "healthy" -> Probe_Running
               [] text = "failed" -> Probe_Failed
               [] text = "terminated" -> Probe_Terminated
               [] OTHER -> Probe_Unknown)
      [] OTHER ->
            (CASE text = "alive" -> MemberStatus_Alive
               [] text = "leaving" -> MemberStatus_Leaving
               [] text = "left" -> MemberStatus_Left
               [] text = "failed" -> MemberStatus_Failed
               [] OTHER -> MemberStatus_None)

\* (s T) MarshalText(); the nil of the default branches, and of
\* MemberStatus_None, whose empty case leaves the switch, is ""
MarshalText(type, s) ==
    CASE type = "SystemStatus_Type" ->
            (CASE s = SystemStatus_Running -> "running"
               [] s = SystemStatus_Degraded -> "degraded"
               [] OTHER -> "")
      [] type = "NodeStatus_Type" ->
            (CASE s = NodeStatus_Running -> "healthy"
               [] s = NodeStatus_Degraded -> "degraded"
               [] OTHER -> "")
      [] type = "Probe_Type" ->
            (CASE s = Probe_Running -> "healthy"
               [] s = Probe_Failed -> "failed"
               [] s = Probe_Terminated -> "terminated"
               [] OTHER -> "")
      [] OTHER ->
            (CASE s = MemberStatus_Alive -> "alive"
               [] s = MemberStatus_Leaving -> "leaving"
               [] s = MemberStatus_Left -> "left"
               [] s = MemberStatus_Failed -> "failed"
               [] s = MemberStatus_None -> ""
               [] OTHER -> "none")

\* (s *T) UnmarshalText(text)
UnmarshalText(type, text) ==
    CASE type = "SystemStatus_Type" ->
            (CASE text = "running" -> SystemStatus_Running
               [] text = "degraded" -> SystemStatus_Degraded
               [] OTHER -> SystemStatus_Unknown)
      [] type = "NodeStatus_Type" ->
            (CASE text = "healthy" -> NodeStatus_Running
               [] text = "degraded" -> NodeStatus_Degraded
               [] OTHER -> NodeStatus_Unknown)
      [] type = "Probe_Type" ->
            (CASE text = "healthy" -> Probe_Running
               [] text = "failed" -> Probe_Failed
               [] text = "terminated" -> Probe_Terminated
               [] OTHER -> Probe_Unknown)
      [] OTHER ->
            (CASE text = "alive" -> MemberStatus_Alive
               [] text = "leaving" -> MemberStatus_Leaving
               [] text = "left" -> MemberStatus_Left
               [] text = "failed" -> MemberStatus_Failed
               [] OTHER -> MemberStatus_None)

\* a call of MarshalText or of UnmarshalText, recorded with what it returned;
\* both return a nil error on every branch
TextCall(op, type, arg) ==
    /\ Len(out) < MaxCalls
    /\ out' = Append(out, [op |-> op, type |-> type, arg |-> arg,
                           result |-> IF op = "MarshalText" THEN MarshalText(type, arg)
                                      ELSE UnmarshalText(type, arg),
                           err |-> FALSE])
    /\ UNCHANGED <<cache, store, resp, ret, now, sweeper, heap, conc, retry, agent, reporter, main, calls>>

NextText ==
    \/ \E type \in DOMAIN StatusTypes : \E s \in StatusTypes[type] :
          TextCall("MarshalText", type, s)
    \/ \E type \in DOMAIN StatusTypes, text \in Texts : TextCall("UnmarshalText", type, text)

SpecText == InitStore /\ [][NextText]_vars

----------------------------------------------------------------------------
(* Specification SpecMain: runAgent and handleSignals of tool/agent *)

\* agent, err := newAgent(conf, logOutput); on success defer func() {
\* agent.Leave(); agent.Shutdown() }()
MainNewAgent(mode, ok) ==
    /\ main.pc = "newAgent"
    /\ main' = IF ok THEN [main EXCEPT !.pc = "start", !.mode = mode,
                                       !.defers = <<<<"agent.Leave", "agent.Shutdown">>>>]
               ELSE [main EXCEPT !.pc = "exit", !.mode = mode, !.err = TRUE,
                                 !.exit = exitCode(TRUE)]
    /\ UNCHANGED <<cache, store, resp, ret, out, now, sweeper, heap, conc, retry, agent,
                   reporter, calls>>

\* conn, err := agent.start(); on success defer conn.Shutdown()
MainStart(ok) ==
    /\ main.pc = "start"
    /\ main' = IF ok THEN [main EXCEPT !.pc = IF main.mode = "node" THEN "join" ELSE "select",
                                       !.defers = Append(@, <<"conn.Shutdown">>)]
               ELSE [main EXCEPT !.pc = "return", !.err = TRUE]
    /\ UNCHANGED <<cache, store, resp, ret, out, now, sweeper, heap, conc, retry, agent,
                   reporter, calls>>

\* if conf.mode == node { agent.Join(...) }
MainJoin(failed) ==
    /\ main.pc = "join"
    /\ main' = [main EXCEPT !.pc = "select",
                            !.log = Append(@, [call |-> "agent.Join", err |-> failed])]
    /\ UNCHANGED <<cache, store, resp, ret, out, now, sweeper, heap, conc, retry, agent,
                   reporter, calls>>

\* handleSignals, case <-signalc: agent.Leave(); return agent.Shutdown()
MainSignal ==
    /\ main.pc = "select"
    /\ main' = [main EXCEPT !.pc = "signal", !.todo = <<"agent.Leave", "agent.Shutdown">>]
    /\ UNCHANGED <<cache, store, resp, ret, out, now, sweeper, heap, conc, retry, agent,
                   reporter, calls>>

\* handleSignals, case <-agent.ShutdownCh(): return nil
MainShutdownCh ==
    /\ main.pc = "select"
    /\ main' = [main EXCEPT !.pc = "return"]
    /\ UNCHANGED <<cache, store, resp, ret, out, now, sweeper, heap, conc, retry, agent,
                   reporter, calls>>

\* the next call of the statement or deferred function under way; the error
\* of the Shutdown that handleSignals returns is the error of runAgent
MainCall(failed) ==
    /\ main.todo # <<>>
    /\ LET last == Len(main.todo) = 1
       IN main' = [main EXCEPT
                      !.log = Append(@, [call |-> Head(main.todo), err |-> failed]),
                      !.todo = Tail(@),
                      !.err = IF last /\ main.pc = "signal" THEN failed ELSE @,
                      !.pc = IF last /\ main.pc = "signal" THEN "return" ELSE @]
    /\ UNCHANGED <<cache, store, resp, ret, out, now, sweeper, heap, conc, retry, agent,
                   reporter, calls>>

\* runAgent returns: the deferred functions run, the last deferred first
MainDefer ==
    /\ main.pc \in {"return", "defer"}
    /\ main.todo = <<>>
    /\ main.defers # <<>>
    /\ main' = [main EXCEPT !.pc = "defer",
                            !.todo = main.defers[Len(main.defers)],
                            !.defers = SubSeq(@, 1, Len(@) - 1)]
    /\ UNCHANGED <<cache, store, resp, ret, out, now, sweeper, heap, conc, retry, agent,
                   reporter, calls>>

\* main: log.Fatalln(err) when run returned an error
MainExit ==
    /\ main.pc \in {"return", "defer"}
    /\ main.todo = <<>>
    /\ main.defers = <<>>
    /\ main' = [main EXCEPT !.pc = "exit", !.exit = exitCode(main.err)]
    /\ UNCHANGED <<cache, store, resp, ret, out, now, sweeper, heap, conc, retry, agent,
                   reporter, calls>>

NextMain ==
    \/ \E mode \in {"master", "node"}, ok \in BOOLEAN : MainNewAgent(mode, ok)
    \/ \E ok \in BOOLEAN : MainStart(ok)
    \/ \E failed \in BOOLEAN : MainJoin(failed)
    \/ MainSignal
    \/ MainShutdownCh
    \/ \E failed \in BOOLEAN : MainCall(failed)
    \/ MainDefer
    \/ MainExit

SpecMain == Init /\ [][NextMain]_vars

----------------------------------------------------------------------------
(* Specification SpecRace: goroutines calling cache.UpdateNode together *)

\* a goroutine enters cache.UpdateNode(status).  cached and stored: the
\* position of its write among the writes to the cache and to the backend
RaceCall(status) ==
    /\ Len(calls) < MaxCalls
    /\ calls' = Append(calls, [arg |-> status, pc |-> "Lock", cached |-> 0, stored |-> 0])
    /\ UNCHANGED <<cache, store, resp, ret, out, now, sweeper, heap, conc, retry, agent,
                   reporter, main>>

\* r.mu.Lock(); the node of that name is replaced or the clone appended;
\* r.mu.Unlock().  The mutex admits one goroutine at a time to this section.
RaceWrite(i) ==
    /\ i <= Len(calls)
    /\ calls[i].pc = "Lock"
    /\ cache' = [cache EXCEPT !.Nodes = updateNodes(cache.Nodes, calls[i].arg)]
    /\ calls' = [calls EXCEPT ![i].pc = "backend", ![i].cached = Cardinality({j \in 1..Len(calls) : calls[j].cached > 0}) + 1]
    /\ UNCHANGED <<store, resp, ret, out, now, sweeper, heap, conc, retry, agent,
                   reporter, main>>

\* return r.backend.UpdateNode(status), after the mutex is released
RaceBackend(i, ok) ==
    /\ i <= Len(calls)
    /\ calls[i].pc = "backend"
    /\ store' \in backendUpdateNode(store, calls[i].arg, IF ok THEN 0 ELSE -1)
    /\ calls' = [calls EXCEPT ![i].pc = "done",
                              ![i].stored =
                                  IF ok THEN Cardinality({j \in 1..Len(calls) :
                                                             calls[j].stored > 0}) + 1
                                  ELSE 0]
    /\ UNCHANGED <<cache, resp, ret, out, now, sweeper, heap, conc, retry, agent,
                   reporter, main>>

\* the status a node reports with the probe it is derived from
NextRace ==
    \/ \E name \in CacheNames, probe \in {Probe_Running, Probe_Failed} :
          RaceCall([Name |-> name,
                    Status |-> IF probe = Probe_Running THEN NodeStatus_Running
                               ELSE NodeStatus_Degraded,
                    Probes |-> <<StoreProbe(probe, now)>>])
    \/ \E i \in 1..MaxCalls : RaceWrite(i)
    \/ \E i \in 1..MaxCalls, ok \in BOOLEAN : RaceBackend(i, ok)

SpecRace == Init /\ [][NextRace]_vars

----------------------------------------------------------------------------
(* Properties of the aggregator, checked under SpecAgg *)

\* setSystemStatus has run on resp
Applied == ret.op = "setSystemStatus"
InNodes == resp.Status.Nodes
Verdict == resp.Status.Status

TaggedMaster(node) ==
    /\ "role" \in DOMAIN node.MemberStatus.Tags
    /\ node.MemberStatus.Tags["role"] = "master"
MemberFailed(node) == node.MemberStatus.Status = MemberStatus_Failed
SomeNode(nodes, P(_)) == \E i \in 1..Len(nodes) : P(nodes[i])
EveryNode(nodes, P(_)) == \A i \in 1..Len(nodes) : P(nodes[i])
IsRunning(node) == node.Status = NodeStatus_Running
IsDegraded(node) == node.Status = NodeStatus_Degraded
IsUnknown(node) == node.Status = NodeStatus_Unknown
IsAlive(node) == node.MemberStatus.Status = MemberStatus_Alive

\* C1: whenever at least one node of the list has member status failed, the
\* system status computed by setSystemStatus is degraded, whatever the node
\* statuses, the position of the failed node and the presence of a master.
C1_FailedMemberDegrades ==
    (Applied /\ SomeNode(InNodes, MemberFailed)) => Verdict = SystemStatus_Degraded

\* a failed member first in the list, followed by a running alive master
C1_Witness ==
    /\ Applied
    /\ Len(InNodes) >= 2
    /\ MemberFailed(InNodes[1]) /\ IsRunning(InNodes[1])
    /\ TaggedMaster(InNodes[2]) /\ IsRunning(InNodes[2]) /\ IsAlive(InNodes[2])
    /\ Verdict = SystemStatus_Degraded

\* C2: when no node of the list carries the tag role = master (role = node,
\* no role tag, the empty list), the system status is degraded and the
\* summary is "master node unavailable"; a node's name does not make it a
\* master.
C2_NoMasterDegraded ==
    (Applied /\ ~SomeNode(InNodes, TaggedMaster)) =>
        /\ Verdict = SystemStatus_Degraded
        /\ resp.Summary = "master node unavailable"

\* running alive nodes, one named master but tagged role = node, one untagged
C2_Witness ==
    /\ Applied
    /\ Len(InNodes) >= 2
    /\ ~SomeNode(InNodes, TaggedMaster)
    /\ EveryNode(InNodes, IsRunning)
    /\ InNodes[1].Name = "master" /\ InNodes[1].MemberStatus.Tags = RoleTag(RoleNode)
    /\ InNodes[2].MemberStatus.Tags = NoTags
    /\ Verdict = SystemStatus_Degraded
    /\ resp.Summary = "master node unavailable"

\* C3: when every node has node status running and member status alive and
\* at least one node is tagged role = master, the system status is running
\* and the summary stays empty.
C3_AllRunningIsRunning ==
    (Applied /\ EveryNode(InNodes, IsRunning) /\ EveryNode(InNodes, IsAlive)
        /\ SomeNode(InNodes, TaggedMaster)) =>
        /\ Verdict = SystemStatus_Running
        /\ resp.Summary = ""

\* a running alive master followed by a running alive node
C3_Witness ==
    /\ Applied
    /\ Len(InNodes) = 2
    /\ EveryNode(InNodes, IsRunning) /\ EveryNode(InNodes, IsAlive)
    /\ TaggedMaster(InNodes[1]) /\ InNodes[2].MemberStatus.Tags = RoleTag(RoleNode)
    /\ Verdict = SystemStatus_Running
    /\ resp.Summary = ""

AliveMaster(node) == TaggedMaster(node) /\ IsAlive(node)
GoneMaster(node) ==
    TaggedMaster(node) =>
        node.MemberStatus.Status \in {MemberStatus_Leaving, MemberStatus_Left, MemberStatus_None}

\* C4: the system status is running only if some master-tagged node has
\* member status alive; when every master-tagged node has member status
\* leaving, left or none the result is degraded with summary "master node
\* unavailable".
C4_AliveMasterRequired ==
    Applied =>
        /\ Verdict = SystemStatus_Running => SomeNode(InNodes, AliveMaster)
        /\ EveryNode(InNodes, GoneMaster) =>
              /\ Verdict = SystemStatus_Degraded
              /\ resp.Summary = "master node unavailable"

\* C5: with a master present and no failed member, the system status is
\* degraded if any node is degraded (whatever precedes it), otherwise unknown
\* if any node is unknown, otherwise running.
C5_DegradedDominatesUnknown ==
    (Applied /\ SomeNode(InNodes, TaggedMaster) /\ ~SomeNode(InNodes, MemberFailed)) =>
        Verdict = IF SomeNode(InNodes, IsDegraded) THEN SystemStatus_Degraded
                  ELSE IF SomeNode(InNodes, IsUnknown) THEN SystemStatus_Unknown
                  ELSE SystemStatus_Running

Permuted(nodes, p) == [i \in 1..Len(nodes) |-> nodes[p[i]]]

\* C6: status and summary computed by setSystemStatus are the same for every
\* permutation of the node list.
C6_OrderIndependent ==
    Applied =>
        \A p \in Permutations(1..Len(InNodes)) :
            LET other == setSystemStatus(
                    [Status |-> [Status |-> SystemStatus_Unknown,
                                 Nodes |-> Permuted(InNodes, p)],
                     Summary |-> ""])
            IN /\ other.Status.Status = Verdict
               /\ other.Summary = resp.Summary

\* C8: once the status held by the loop of setSystemStatus is degraded, no
\* later node and not the final master check makes it running or unknown:
\* the final status is degraded.
C8_DegradedIsFinal ==
    Applied =>
        \A k \in 0..Len(InNodes) :
            loopState(InNodes, k).Status = SystemStatus_Degraded =>
                Verdict = SystemStatus_Degraded

\* a degraded node first, then a running alive master, then an unknown node
C8_Witness ==
    /\ Applied
    /\ Len(InNodes) = 3
    /\ IsDegraded(InNodes[1]) /\ ~MemberFailed(InNodes[1])
    /\ IsRunning(InNodes[2]) /\ AliveMaster(InNodes[2])
    /\ IsUnknown(InNodes[3]) /\ ~MemberFailed(InNodes[3])
    /\ Verdict = SystemStatus_Degraded

----------------------------------------------------------------------------
(* Properties of the Status RPC and of the cache, checked under Spec *)

LocalMaster == NodeStatus("master", NodeStatus_Running, MemberStatus_Alive, RoleTag(RoleMaster))
Placeholder == NodeStatus("node", NodeStatus_Unknown, MemberStatus_Alive, RoleTag(RoleNode))

StatusOfMasterAndPlaceholder ==
    /\ ret.op = "Status"
    /\ resp.Status.Nodes \in {<<LocalMaster, Placeholder>>, <<Placeholder, LocalMaster>>}

\* C7 as stated: with the cached node list made of the local alive running
\* master and the unknown placeholder of an unreachable alive peer, the
\* Status RPC reports degraded.
C7_PlaceholderDegraded ==
    StatusOfMasterAndPlaceholder => resp.Status.Status = SystemStatus_Degraded

\* C7 amended: with the cached node list made of the local alive running
\* master and the unknown placeholder of an unreachable alive peer, the
\* Status RPC reports system status unknown, with an empty summary.
C7_PlaceholderUnknown ==
    StatusOfMasterAndPlaceholder =>
        /\ resp.Status.Status = SystemStatus_Unknown
        /\ resp.Summary = ""

C7_Witness ==
    /\ ret.op = "Status"
    /\ cache.Nodes = <<LocalMaster, Placeholder>>
    /\ resp.Status.Nodes = cache.Nodes
    /\ resp.Status.Status = SystemStatus_Unknown

NoNameTwice(nodes) ==
    \A i, j \in 1..Len(nodes) : nodes[i].Name = nodes[j].Name => i = j
Entries(nodes, name) == {i \in 1..Len(nodes) : nodes[i].Name = name}

C10_UpdateNodeIdempotent ==
    [][(ret.op = "UpdateNode" /\ ret'.op = "UpdateNode" /\ ret'.node = ret.node) =>
          cache' = cache]_vars

\* the second of two equal UpdateNode calls has returned
C10_Witness ==
    /\ ret.op = "UpdateNode" /\ ret.again
    /\ Len(cache.Nodes) = 2
    /\ cache.Nodes[2] = ret.node

\* C11: UpdateNode for a name not yet cached appends the entry at the end of
\* the node list; for a name already cached it replaces the entry at its
\* position; all other entries keep contents and order and the cached system
\* status is unchanged.
C11_AppendOrReplaceInPlace ==
    [][ret'.op = "UpdateNode" =>
          LET old == cache.Nodes
              new == cache'.Nodes
              at == {i \in 1..Len(old) : old[i].Name = ret'.node.Name}
          IN /\ cache'.Status = cache.Status
             /\ at = {} => new = old \o <<ret'.node>>
             /\ at # {} =>
                   /\ Len(new) = Len(old)
                   /\ \E i \in at :
                         /\ new[i] = ret'.node
                         /\ \A j \in 1..Len(old) : j # i => new[j] = old[j]]_vars

\* an entry replaced at the first position, the other entry and the status
\* left as they were
C11_Witness ==
    /\ ret.op = "UpdateNode"
    /\ cache.Status = SystemStatus_Running
    /\ Len(cache.Nodes) = 2
    /\ cache.Nodes[1] = ret.node
    /\ cache.Nodes[2].Name # ret.node.Name
    /\ cache.Nodes[2].Status # ret.node.Status

\* C14: handling Status leaves the cache's system status and node list as
\* they were, and two consecutive Status calls return equal status, node list
\* and summary.
C14_StatusReadOnly ==
    [][ret'.op = "Status" =>
          /\ cache' = cache
          /\ ret.op = "Status" => resp' = resp]_vars

\* a second Status call in a row, its verdict differing from the cached one
C14_Witness ==
    /\ ret.op = "Status" /\ ret.again
    /\ Len(cache.Nodes) = 2
    /\ resp.Status.Nodes = cache.Nodes
    /\ resp.Status.Status # cache.Status

EntriesNamed(nodes, name) == {nodes[i] : i \in {j \in 1..Len(nodes) : nodes[j].Name = name}}

\* C15: LocalStatus returns the cached NodeStatus whose name equals the local
\* node's name, never another node's entry, and does not modify the cache.
C15_LocalStatusByName ==
    ret.op = "LocalStatus" =>
        IF EntriesNamed(cache.Nodes, ret.node.Name) = {}
        THEN resp.Status = NoNode
        ELSE resp.Status \in EntriesNamed(cache.Nodes, ret.node.Name)

----------------------------------------------------------------------------
(* Properties of the sqlite backend, checked under SpecStore and SpecRecent *)

InSeq(x, q) == \E i \in 1..Len(q) : q[i] = x

\* C16: the probes of a NodeStatus written by UpdateNode and read back by
\* RecentStatus for the same name carry the same (checker, status, error,
\* extra, captured_at) as written, for every probe status value.
C16_RoundTrip ==
    [][(/\ ret.op = "backend.UpdateNode" /\ ~ret.err
        /\ ret'.op = "backend.RecentStatus" /\ ~ret'.err
        /\ ret'.node.Name = ret.node.Name) =>
          \A i \in 1..Len(ret.node.Probes) : InSeq(ret.node.Probes[i], out')]_vars

\* the rows of the probe table that belong to the node row called name
RowsOf(name) ==
    {r \in BagToSet(store.probe) :
        r.node \in 1..Len(store.node) /\ store.node[r.node] = name}
RECURSIVE SumCopies(_)
SumCopies(rows) ==
    IF rows = {} THEN 0
    ELSE LET r == CHOOSE x \in rows : TRUE
         IN CopiesIn(r, store.probe) + SumCopies(rows \ {r})
\* how many rows of the node were captured at t or later
RowsSince(name, t) == SumCopies({r \in RowsOf(name) : r.captured_at[2] >= t})
OutSince(t) == Cardinality({i \in 1..Len(out) : out[i].Timestamp >= t})
AtMost(n, k) == IF n < k THEN n ELSE k

C18_UpdateNodeAtomic ==
    [][ret'.op = "backend.UpdateNode" =>
          /\ ret'.err => store'.probe = store.probe
          /\ ~ret'.err =>
                BagCardinality(store'.probe) =
                    BagCardinality(store.probe) + Len(ret'.node.Probes)]_vars

C20_NoEvictionAfterClose ==
    [][store.done => ~(ret'.op = "deleteOlderThan" /\ sweeper'.timer # sweeper.timer)]_vars

----------------------------------------------------------------------------
(* Properties of the cache's copies, checked under SpecAlias *)

\* C12: results of RecentStatus and RecentNodeStatus are copies and the
\* arguments of Update and UpdateNode are copied on write: a caller that
\* assigns to an object it was given, or to an argument after the write has
\* returned, changes nothing of what reads of the cache return.
C12_NoAliasing ==
    [][ret'.op = "Mutate" => RecentStatus(cache') = RecentStatus(cache)]_vars

\* the object at a differs from the cache's entry of its name
Diverged(a) ==
    \E i \in 1..Len(cache.Nodes) :
        /\ heap.obj[a].Name = cache.Nodes[i].Name
        /\ heap.obj[a] # cache.Nodes[i]

\* a caller has assigned to an argument it passed and to a result it was
\* given, and both now differ from the cache's entry
C12_Witness ==
    /\ ret.op = "Mutate"
    /\ \E a \in heap.held : Diverged(a)
    /\ \E a \in heap.given : Diverged(a)

----------------------------------------------------------------------------
(* Properties of the cache's locking, checked under SpecConc *)

\* reader i has its result and has not yet returned it
HasResult(i) == conc.rd[i].pc = "RUnlock"

\* C13: while a writer calls Update / UpdateNode, every read returns the
\* cache as a completed write (or New) left it: RecentStatus the whole
\* SystemStatus of that state, RecentNodeStatus an entry of its node list,
\* never a status or node list that is partly written.
C13_ReadsSeeWholeWrites ==
    \A i \in Readers :
        HasResult(i) =>
            /\ conc.rd[i].op = "RecentStatus" => conc.rd[i].res = conc.committed
            /\ conc.rd[i].op = "RecentNodeStatus" =>
                  \/ conc.rd[i].res = NoNode
                  \/ InSeq(conc.rd[i].res, conc.committed.Nodes)

\* a reader holds the SystemStatus of a completed Update while the writer
\* waits for the mutex with the next Update, and another reader holds an entry
C13_Witness ==
    /\ conc.wr.pc = "Lock" /\ conc.wr.op = "Update" /\ conc.wr.arg # conc.committed
    /\ \E i, j \in Readers :
          /\ HasResult(i) /\ conc.rd[i].op = "RecentStatus"
          /\ conc.rd[i].res.Nodes # <<>>
          /\ conc.rd[i].res.Status # SystemStatus_Unknown
          /\ HasResult(j) /\ conc.rd[j].op = "RecentNodeStatus"
          /\ conc.rd[j].res # NoNode

----------------------------------------------------------------------------
(* The cache when its backend fails, checked under Spec *)

Names(nodes) == {nodes[i].Name : i \in 1..Len(nodes)}
Stored(name) == InSeq(name, store.node)

\* C25: when the backend write of UpdateNode or Update fails the cache holds
\* the new status all the same, and every later update attempts the backend
\* write again: one that returns without error has written its nodes.
C25_CacheKeepsWhatBackendLost ==
    [][/\ ret'.op = "UpdateNode" =>
             /\ InSeq(ret'.node, cache'.Nodes)
             /\ ~ret'.err => InSeq(ret'.node.Name, store'.node)
       /\ ret'.op = "Update" =>
             /\ cache' = ret'.status
             /\ ~ret'.err =>
                   \A name \in Names(ret'.status.Nodes) : InSeq(name, store'.node)]_vars

\* the write of a node the backend has no row of failed, the cache has it
C25_Witness ==
    /\ ret.op = "UpdateNode" /\ ret.err
    /\ InSeq(ret.node, cache.Nodes)
    /\ ~Stored(ret.node.Name)
    /\ store.node # <<>>

----------------------------------------------------------------------------
(* The timestamps of the cache's entries, checked under SpecStamp *)

\* captured_at of an entry: the instant its probes were taken
CapturedAt(entry) == entry.Probes[1].Timestamp

\* C24: the captured_at of the cache entry of a node never decreases: no
\* cache update replaces an entry by one captured earlier.
C24_TimestampNeverBackwards ==
    [][\A i \in 1..Len(cache.Nodes), j \in 1..Len(cache'.Nodes) :
          cache.Nodes[i].Name = cache'.Nodes[j].Name =>
              CapturedAt(cache'.Nodes[j]) >= CapturedAt(cache.Nodes[i])]_vars

----------------------------------------------------------------------------
(* The exit code of the status command, checked under SpecCli *)

\* C27: the status command exits with 0 when the response reports running,
\* with 1 when it reports degraded, with 2 when the RPC fails with a
\* transport error.
C27_ExitCodes ==
    ret.op = "status command" =>
        /\ (~ret.err /\ resp.Status.Status = SystemStatus_Running) => ret.exit = 0
        /\ (~ret.err /\ resp.Status.Status = SystemStatus_Degraded) => ret.exit = 1
        /\ ret.err => ret.exit = 2

----------------------------------------------------------------------------
(* Properties of utils.Retry, checked under SpecRetry *)

Attempts == Len(retry.errs)
Returned == retry.pc = "returned"

\* what holds of every state of a call of Retry
RetryState ==
    /\ Attempts <= IF retry.times > 0 THEN retry.times ELSE 0
    /\ \A k \in 1..Attempts :
          retry.errs[k] = NoError =>
              /\ k = Attempts
              /\ Returned /\ retry.result = NoError
    /\ (Returned /\ retry.times > 0 /\ Attempts = retry.times
                 /\ retry.errs[Attempts] # NoError) =>
          retry.result = retry.errs[retry.times]

\* C26: Retry calls fn at most times times; it returns nil right after the
\* first call of fn that returns nil and does not call fn again; cancelled
\* while it waits after a failed attempt, it returns that attempt's error
\* without another call of fn; when all times attempts fail it returns the
\* error of the last one.
C26_Retry ==
    [][/\ RetryState'
       /\ (retry.pc = "wait" /\ retry'.cancelled) =>
             /\ retry'.errs = retry.errs
             /\ retry'.pc = "done"
       /\ retry.pc = "done" =>
             /\ retry'.errs = retry.errs
             /\ retry'.pc = "returned" => retry'.result = retry.errs[Attempts]]_vars

\* cancelled while waiting after the second of three attempts
C26_Witness ==
    /\ Returned /\ retry.cancelled
    /\ retry.times = 3 /\ Attempts = 2
    /\ retry.result = 2

----------------------------------------------------------------------------
(* Properties of the probes checkers emit, checked under SpecCheck *)

Field(p, f) == IF f \in DOMAIN p THEN p[f] ELSE ""
Emitted == {reporter.probes[k] : k \in 1..Len(reporter.probes)}
Runs == {reporter.runs[k] : k \in 1..Len(reporter.runs)}

\* C28: each run of a checker adds exactly one probe to the reporter, on its
\* success path and on each of its failure paths.
C28_OneProbePerRun == \A run \in Runs : run.n = 1

\* the names on the probes the k-th run added
RECURSIVE Before(_)
Before(k) == IF k = 1 THEN 0 ELSE Before(k - 1) + reporter.runs[k - 1].n
NamesOfRun(k) ==
    {Field(reporter.probes[j], "Checker") : j \in (Before(k) + 1)..(Before(k) + reporter.runs[k].n)}

\* C29: every probe a checker emits carries a non-empty checker name, the
\* same on every run of that checker, on success and failure paths alike.
C29_NamedAndStable ==
    /\ \A p \in Emitted : Field(p, "Checker") # ""
    /\ \A k, l \in 1..Len(reporter.runs) :
          (/\ reporter.runs[k].checker = reporter.runs[l].checker
           /\ reporter.runs[k].n > 0 /\ reporter.runs[l].n > 0) =>
              NamesOfRun(k) = NamesOfRun(l)

IsFailedProbe(p) == p.Status \in {Probe_Failed, StatusFailed}
\* the error text of a probe: Error, or Message in package health
ErrorText(p) == IF "Error" \in DOMAIN p THEN p.Error ELSE Field(p, "Message")

----------------------------------------------------------------------------
(* Properties of the status update loop, checked under SpecTick *)

\* the entries of a node list that are not called name
Others(nodes, name) == SelectSeq(nodes, LAMBDA n : n.Name # name)
Finalizes(a) == agent.pc[a] = "idle" /\ agent'.pc[a] = "checked"

\* C23: the NodeStatus a tick finalizes is running iff every probe collected
\* in that tick is running and degraded otherwise; finalizing it, whatever
\* its probes, changes neither the peer's status nor any other node's entry,
\* and an agent between two ticks can always start the next one.
C23_RunningIffAllProbesRunning ==
    /\ [](\A a \in Agents : agent.pc[a] = "idle" => ENABLED TickCheck(a, "", FALSE))
    /\ [][\A a \in Agents : Finalizes(a) =>
            LET status == agent'.status[a]
            IN /\ status.Status = IF \A k \in 1..Len(status.Probes) :
                                        status.Probes[k].Status = Probe_Running
                                   THEN NodeStatus_Running ELSE NodeStatus_Degraded
               /\ status.Status # NodeStatus_Running =>
                     \E k \in 1..Len(status.Probes) : status.Probes[k].Status = Probe_Failed
               /\ InSeq(status, cacheOf(a)'.Nodes)
               /\ Others(cacheOf(a)'.Nodes, status.Name) = Others(cacheOf(a).Nodes, status.Name)
               /\ cacheOf(peerOf(a))' = cacheOf(peerOf(a))
               /\ agent'.status[peerOf(a)] = agent.status[peerOf(a)]]_vars

\* the local agent ends a tick whose probes all run, after a tick that
\* collected a failed probe, while the peer's last probes hold a failed one
C23_Witness ==
    /\ ret.op = "tick" /\ ret.again
    /\ ret.node.Name = agent.members[1].Name
    /\ agent.status["local"].Status = NodeStatus_Running
    /\ agent.status["remote"] # NoNode
    /\ agent.status["remote"].Status = NodeStatus_Degraded

Completes(a) == agent.pc[a] = "checked" /\ agent'.pc[a] = "idle"

\* C21: the SystemStatus a completed tick leaves in the cache has exactly one
\* NodeStatus for every member; when the LocalStatus call to the peer failed,
\* the peer's entry is the placeholder with its name and status unknown and
\* the local entry is the status the tick finalized; and a tick that has
\* checked can always complete, whether the peer answers or not.
C21_OneEntryPerMember ==
    /\ [](\A a \in Agents : agent.pc[a] = "checked" => ENABLED TickCollect(a, FALSE, FALSE))
    /\ [][\A a \in Agents : Completes(a) =>
            LET nodes == cacheOf(a)'.Nodes
            IN /\ Len(nodes) = Len(agent.members)
               /\ \A k \in 1..Len(agent.members) :
                     Cardinality(Entries(nodes, agent.members[k].Name)) = 1
               /\ InSeq(agent.status[a], nodes)
               /\ ~ret'.reachable => InSeq(unknownNodeStatus(memberOf(peerOf(a))), nodes)]_vars

\* the local agent's Status RPC was answered after a finished tick whose
\* LocalStatus call reached a peer that had finalized a status of its own
AfterTickOfTwo ==
    /\ ret.op = "Status"
    /\ agent.pc["local"] = "idle"
    /\ agent.status["local"] # NoNode
    /\ agent.seen.reachable
    /\ agent.seen.peer # NoNode

\* C22: in a cluster of two reachable agents, the Status RPC of the local
\* agent after its tick lists both members and reports running when a member
\* is a master and every probe of both nodes is running, degraded when some
\* probe of a node failed, and degraded when no member is a master.
C22_StatusOfTwoMembers ==
    AfterTickOfTwo =>
        LET master == \E k \in 1..Len(agent.members) : isMaster(agent.members[k])
            running == /\ AllRunning(agent.status["local"].Probes)
                       /\ AllRunning(agent.seen.peer.Probes)
        IN /\ Len(resp.Status.Nodes) = 2
           /\ Names(resp.Status.Nodes) = Names(agent.members)
           /\ (master /\ running) => resp.Status.Status = SystemStatus_Running
           /\ ~running => resp.Status.Status = SystemStatus_Degraded
           /\ ~master => resp.Status.Status = SystemStatus_Degraded

----------------------------------------------------------------------------
(* Update replaces the cached status, checked under Spec *)

\* C31: after Update(s), and until the next write, RecentStatus returns a
\* value equal to s: the status field and the node list are those of s, no
\* entry of a node absent from s is returned any more, and the backend was
\* handed s: it has a node row for every node of s.
C31_UpdateReplaces ==
    ret.op = "Update" =>
        LET s == ret.status
            recent == RecentStatus(cache)
        IN /\ recent.Status = s.Status
           /\ recent.Nodes = s.Nodes
           /\ \A k \in 1..Len(recent.Nodes) : recent.Nodes[k].Name \in Names(s.Nodes)
           /\ ~ret.err =>
                 \A k \in 1..Len(s.Nodes) : selectId(store.node, s.Nodes[k].Name, 1) # 0

\* an Update has replaced a cache that held a node the backend has a row of
\* and that the status of the Update does not name
C31_Witness ==
    /\ ret.op = "Update" /\ ~ret.err
    /\ RecentStatus(cache) = ret.status
    /\ cache.Nodes # <<>>
    /\ \E k \in 1..Len(store.node) : store.node[k] \notin Names(cache.Nodes)

----------------------------------------------------------------------------
(* What a verdict of running implies, checked under SpecAgg *)

\* C35: whenever setSystemStatus yields running, every node of the list has
\* node status running, no node has member status failed and at least one
\* node is tagged role = master.
C35_RunningImplies ==
    (Applied /\ Verdict = SystemStatus_Running) =>
        /\ EveryNode(InNodes, IsRunning)
        /\ ~SomeNode(InNodes, MemberFailed)
        /\ SomeNode(InNodes, TaggedMaster)

\* running, for a list of a master and a node that is none
C35_Witness ==
    /\ Applied /\ Verdict = SystemStatus_Running
    /\ Len(InNodes) >= 2
    /\ ~EveryNode(InNodes, TaggedMaster)

----------------------------------------------------------------------------
(* Status before the first tick, checked under Spec *)

\* C36: Status on the cache as New seeds it (status unknown, no node) answers
\* degraded with the summary "master node unavailable"; whatever status the
\* cache stores, the answer is the verdict of the cached node list, the same
\* as for a stored status of unknown.
C36_StatusRecomputed ==
    ret.op = "Status" =>
        /\ cache.Nodes = <<>> =>
              /\ resp.Status.Status = SystemStatus_Degraded
              /\ resp.Summary = "master node unavailable"
        /\ resp = setSystemStatus([Status |-> [Status |-> SystemStatus_Unknown,
                                               Nodes |-> cache.Nodes],
                                   Summary |-> ""])
        /\ resp.Status.Nodes = cache.Nodes

\* Status answered on the seeded cache
C36_Witness ==
    /\ ret.op = "Status"
    /\ cache = [Status |-> SystemStatus_Unknown, Nodes |-> <<>>]
    /\ store.node = <<>>
    /\ resp.Status.Status = SystemStatus_Degraded

----------------------------------------------------------------------------
(* Retry at the ends of its range, checked under SpecRetry *)

\* C38: with times <= 0 Retry never calls fn and returns nil; with
\* times >= 1 it has called fn at least once when it returns, a context
\* cancelled from the start included.
C38_RetryEdges ==
    /\ retry.times <= 0 =>
          /\ Attempts = 0
          /\ retry.pc \in {"loop", "returned"}
          /\ Returned => retry.result = NoError
    /\ (retry.times >= 1 /\ Returned) => Attempts >= 1

\* returned the error of its only attempt, of several allowed, under a
\* cancelled context
C38_Witness ==
    /\ Returned /\ retry.cancelled
    /\ retry.times >= 2 /\ Attempts = 1
    /\ retry.result = 1

----------------------------------------------------------------------------
(* The eviction task after a failed run, checked under SpecStore *)

EvictionRan == ret'.op = "deleteOlderThan" /\ sweeper'.timer # sweeper.timer

\* C33: an eviction run that fails leaves the eviction task running, waiting
\* for the next period; the task ends only once the store is closed, and
\* while it runs and the store is open it evicts when the period has passed.
C33_EvictionRetried ==
    /\ [](sweeper.pc = "exited" => store.done)
    /\ []((sweeper.pc = "select" /\ ~store.done /\ now >= sweeper.timer) =>
             ENABLED Scavenge(TRUE))
    /\ [][(EvictionRan /\ ret'.err) =>
             /\ sweeper'.pc = "select"
             /\ sweeper'.timer = now + scavengeTimeout]_vars

\* a run that deleted a row, one period after a run that failed
C33_Witness ==
    /\ ret.op = "deleteOlderThan" /\ ret.again
    /\ ~ret.err /\ ret.deleted >= 1
    /\ ~store.done
    /\ sweeper.pc = "select"

----------------------------------------------------------------------------
(* One node row per name, checked under SpecRecent *)

\* the positions of the node table that hold name
NodeRows(nodes, name) == {k \in 1..Len(nodes) : nodes[k] = name}
\* the probe rows a step added
AddedRows == {r \in BagToSet(store'.probe) : CopiesIn(r, store'.probe) > CopiesIn(r, store.probe)}

\* C34: after any sequence of UpdateNode calls the node table holds one row
\* for every name written and none twice; an UpdateNode for a name already
\* stored returns no uniqueness error and the probe rows it adds carry the id
\* of the node row of that name, so that RecentStatus(name) finds them.
C34_OneRowPerName ==
    [][(ret'.op = "backend.UpdateNode" /\ ~store.done) =>
          /\ ~ret'.err
          /\ \A k \in 1..Len(store'.node) : Cardinality(NodeRows(store'.node, store'.node[k])) = 1
          /\ Cardinality(NodeRows(store'.node, ret'.node.Name)) = 1
          /\ \A r \in AddedRows : r.node \in NodeRows(store'.node, ret'.node.Name)]_vars

----------------------------------------------------------------------------
(* The text form of the status types, checked under SpecText *)

\* the value unrecognized text is read as
UnknownOf(type) ==
    CASE type = "SystemStatus_Type" -> "SystemStatus_Unknown"
      [] type = "NodeStatus_Type" -> "NodeStatus_Unknown"
      [] type = "Probe_Type" -> "Probe_Unknown"
      [] OTHER -> "MemberStatus_None"
\* the texts that stand for a value of the type
Recognized(type) ==
    CASE type = "SystemStatus_Type" -> {"running", "degraded"}
      [] type = "NodeStatus_Type" -> {"healthy", "degraded"}
      [] type = "Probe_Type" -> {"healthy", "failed", "terminated"}
      [] OTHER -> {"alive", "leaving", "left", "failed"}

\* C39: for every value of the four status types UnmarshalText of what
\* MarshalText wrote is the value again, neither call returns an error, and
\* UnmarshalText reads every text that stands for no value of the type as
\* unknown (for MemberStatus: none).
C39_TextRoundTrip ==
    /\ \A k \in 1..Len(out) : ~out[k].err
    /\ \A k \in 1..(Len(out) - 1) :
          (/\ out[k].op = "MarshalText" /\ out[k + 1].op = "UnmarshalText"
           /\ out[k + 1].type = out[k].type /\ out[k + 1].arg = out[k].result) =>
              out[k + 1].result = out[k].arg
    /\ \A k \in 1..Len(out) :
          (/\ out[k].op = "UnmarshalText"
           /\ out[k].arg \notin Recognized(out[k].type)) =>
              out[k].result = UnknownOf(out[k].type)

\* a running node status written as "healthy" and read back
C39_Witness ==
    /\ Len(out) = 2
    /\ out[1] = [op |-> "MarshalText", type |-> "NodeStatus_Type", arg |-> NodeStatus_Running,
                 result |-> "healthy", err |-> FALSE]
    /\ out[2].op = "UnmarshalText" /\ out[2].type = "NodeStatus_Type"
    /\ out[2].arg = "healthy" /\ out[2].result = NodeStatus_Running

----------------------------------------------------------------------------
(* The order of the calls on shutdown, checked under SpecMain *)

Called(call, k) == \E j \in 1..k : main.log[j].call = call

\* C32: on every path on which the process shuts an agent down (a signal,
\* the agent's shutdown channel, a failure to start), Leave has been called
\* before the agent's Shutdown and before the Shutdown of the RPC connection,
\* and a process that ends after it had an agent has called Leave.
C32_LeaveFirst ==
    /\ \A k \in 1..Len(main.log) :
          main.log[k].call \in {"agent.Shutdown", "conn.Shutdown"} =>
              Called("agent.Leave", k - 1)
    /\ (main.pc = "exit" /\ main.log # <<>>) => Called("agent.Leave", Len(main.log))

----------------------------------------------------------------------------
(* Concurrent writers of one node, checked under SpecRace *)

\* C37: when two calls of cache.UpdateNode for the same node name have both
\* returned without error, the call whose status the cache holds (the later
\* of the two to write the cache) is the call whose probes were written to
\* the backend last.
C37_LastInCacheLastInStore ==
    \A i, j \in 1..Len(calls) :
        (/\ i # j
         /\ calls[i].arg.Name = calls[j].arg.Name
         /\ calls[i].pc = "done" /\ calls[j].pc = "done"
         /\ calls[i].stored > 0 /\ calls[j].stored > 0
         /\ calls[i].cached > calls[j].cached)
        => calls[i].stored > calls[j].stored

====
